---- MODULE Spec2Model ----
(***************************************************************************)
(* Model of vismap's MapView (src/vismap/view.py): the tile command queue, *)
(* the background worker thread (tile_controller), the tile-fetch pool of  *)
(* _merge_tiles, the scene lock, and the operations the UI thread runs     *)
(* (camera events, the tile_provider and map_enabled setters, add_tile,    *)
(* add_tiles_for_current_zoom).                                            *)
(***************************************************************************)
EXTENDS Integers, Sequences, FiniteSets, TLC

VARIABLES
    queue,          \* self.queue: the commands not yet dequeued
    nextId,         \* number of the next command put on the queue
    images,         \* self._images: insertion-ordered <<key, node>> entries
    scene,          \* Image nodes attached to self.scene, with their transform
    lock,           \* self.scene_lock: "none", "ui" or "worker"
    tile_provider,  \* self._tile_provider
    attribution,    \* self._attribution.text
    enabled,        \* self._enabled
    viewport,       \* camera rectangle as <<zoom, nw.x, nw.y, se.x, se.y>>
    wpc,            \* position of the worker thread in tile_controller
    cur,            \* the command the worker is executing (data)
    wsnap,          \* worker: keys still to evict (list(self._images) filtered)
    wnode,          \* worker: the node read or popped (im)
    pending,        \* pool: number of the requests of starmap not yet done
    srcs,           \* pool: providers the fetched rasters came from
    poolerr,        \* pool: some get_tile raised
    uipc,           \* position of the UI thread
    uiop,           \* UI: the setter being run
    uisnap,         \* UI: keys still to evict (list(self._images))
    uinode,         \* UI: the node popped by remove_tile (im)
    uiold,          \* UI: the nodes _images held when the setter listed its keys
    log,            \* logger output: start/end/fail of every executed command
    circles,        \* self._circles: keys of the Ellipse nodes attached
    markers,        \* number of Markers nodes marker_at has attached
    gt_pc,          \* position of a direct call of MapView.get_tile
    gt_args,        \* its arguments <<z, x, y, missing>>
    session_log,    \* the URLs passed to _session.get during the call
    resp,           \* the response _session.get returned
    rgb,            \* what self.tile_provider.get_tile returned or raised
    gt_ret,         \* what MapView.get_tile returned or raised
    mt_pc,          \* position of a call of _merge_tiles
    mt_args,        \* its arguments <<z, x0, y0, x1, y1>>
    server,         \* the tile server: URL -> response
    results,        \* starmap's result slots, one per request
    new_img,        \* what _merge_tiles returned or raised
    fn_pc,          \* position of a call of one of the numeric functions
    fn_args,        \* its arguments
    fn_ret,         \* what it returned
    rmt,            \* a RelativeMercatorTransform: its fields and shader parameters
    rmt_set,        \* the reference point last assigned to it, and how many
                    \* assignments followed its construction
    rmt_ref         \* the reference point its most recent map() evaluated with

vars == <<queue, nextId, images, scene, lock, tile_provider, attribution,
          enabled, viewport, wpc, cur, wsnap, wnode, pending, srcs, poolerr,
          uipc, uiop, uisnap, uinode, uiold, log, circles, markers,
          gt_pc, gt_args, session_log, resp, rgb, gt_ret,
          mt_pc, mt_args, server, results, new_img,
          fn_pc, fn_args, fn_ret, rmt, rmt_set, rmt_ref>>

----------------------------------------------------------------------------
(* Bounds and input sets *)

MaxCmds == 3
MaxMarkers == 1

Providers == {"p1", "p2"}
InitProvider == "p1"

\* <<zoom, northwest.x, northwest.y, southeast.x, southeast.y>>
Viewports == {<<0, 0, 0, 0, 0>>, <<1, 0, 0, 1, 1>>, <<1, 1, 0, 1, 1>>}
\* the camera shows the whole world when the view is constructed; the zoom
\* follows from the size of the widget
WorldViewports == {<<0, 0, 0, 0, 0>>, <<1, 0, 0, 1, 1>>}

\* arguments of add_tile: <<z, x, y>>
TileArgs == {<<0, 0, 0>>}
OnMissing == {"RAISE", "IGNORE", "REPLACE_WITH_CAT"}
\* the policies add_tile is called with
TileMissing == {"RAISE", "REPLACE_WITH_CAT"}

\* keys (longlat, radius) of circle and remove_circle
CircleKeys == {"c1"}

\* outcome of one provider fetch: a raster, TileNotFoundError, another error
FetchOutcomes == {"ok", "notfound", "error"}

Events ==
    { [type |-> "mouse_wheel",   buttons |-> {},  modifiers |-> FALSE],
      [type |-> "mouse_move",    buttons |-> {1}, modifiers |-> FALSE],
      [type |-> "mouse_move",    buttons |-> {2}, modifiers |-> FALSE],
      [type |-> "mouse_move",    buttons |-> {1}, modifiers |-> TRUE],
      [type |-> "mouse_move",    buttons |-> {},  modifiers |-> FALSE],
      [type |-> "mouse_release", buttons |-> {1}, modifiers |-> FALSE] }

NoCmd == [id |-> 0, name |-> "none", z |-> 0, args |-> <<>>]
NoNode == 0
\* what a call gives back: a raster, None, or an exception with its arguments
Result(kind, exc, args, raster) ==
    [kind |-> kind, exc |-> exc, args |-> args, raster |-> raster]
\* no value yet
NoResult == Result("pending", "", <<>>, <<>>)

\* no response: none yet, or _session.get raised (the server is unreachable)
NoResponse == [status |-> 0, image |-> FALSE]
NoTransform == [longitude |-> 0, latitude |-> 0, lon |-> 0, lat |-> 0]

\* arguments of a direct get_tile call
GetTileZ == {0, 1, 3}
GetTileX == {-9, -1, 0, 1, 7, 8, 9}
GetTileY == {0, 2}

\* what the tile server answers: the status code, and whether the body is
\* an image PIL can open
Responses ==
    { [status |-> 200, image |-> TRUE],
      [status |-> 200, image |-> FALSE],
      [status |-> 404, image |-> FALSE],
      [status |-> 500, image |-> FALSE] }

\* how a request can end
Answers == Responses \cup {NoResponse}

\* rectangles _merge_tiles is called with: <<z, x0, y0, x1, y1>>
MergeRects ==
    { <<1, x0, y[1], x0 + dx, y[2]>> :
        x0 \in {-1, 0, 1}, dx \in {0, 1}, y \in {<<0, 0>>, <<0, 1>>, <<1, 1>>} }

\* how the server answers the tiles of zoom 1
MergeAnswers ==
    { [status |-> 200, image |-> TRUE],
      [status |-> 200, image |-> FALSE],
      [status |-> 404, image |-> FALSE] }

----------------------------------------------------------------------------
(* Pure helpers *)

\* a key whose rows are widened like its columns, without clamping
CompositeKeyUnclamped(z, b) ==
    << z, b[1] - 1, b[3] + 1, b[2] - 1, b[4] + 1 >>

\* the 5-tuple key _add_tiles_for_zoom computes from (zoom_level, bounds)
CompositeKey(z, b) ==
    LET x0 == b[1] - 1
        x1 == b[3] + 1
        y0 == b[2] - 1
        y1 == b[4] + 1
    IN  << z, x0, x1,
           IF y0 < 0 THEN 0 ELSE y0,
           IF y1 > 2^z - 1 THEN 2^z - 1 ELSE y1 >>

\* the (z, x, y, missing) requests _merge_tiles builds, in its loop order
RECURSIVE ColumnRequests(_, _, _, _)
ColumnRequests(z, x, y, y0) ==
    IF y < y0 THEN <<>>
    ELSE <<(<<z, x, y, "REPLACE_WITH_CAT">>)>> \o ColumnRequests(z, x, y - 1, y0)

RECURSIVE Requests(_, _, _, _, _)
Requests(z, x0, y0, x1, y1) ==
    IF x0 > x1 THEN <<>>
    ELSE ColumnRequests(z, x0, y1, y0) \o Requests(z, x0 + 1, y0, x1, y1)

\* a key computed from the viewport at the time the command executes
CmdKeyOfViewport(c) ==
    IF c.name = "_add_tiles_for_zoom"
    THEN CompositeKey(viewport[1], SubSeq(viewport, 2, 5))
    ELSE <<c.z, c.args[1], c.args[2]>>

\* the key of the command being executed
CmdKey(c) ==
    IF c.name = "_add_tiles_for_zoom" THEN CompositeKey(c.z, c.args)
    ELSE <<c.z, c.args[1], c.args[2]>>

\* the transform of the composite's north-west tile
CmdTransformNorthWest(c) ==
    IF c.name = "_add_tiles_for_zoom"
    THEN LET k == CompositeKey(c.z, c.args) IN <<k[1], k[2], k[4]>>
    ELSE <<c.z, c.args[1], c.args[2]>>

\* arguments (z, x, y) the command passes to _add_rgb_as_image
CmdTransform(c) ==
    IF c.name = "_add_tiles_for_zoom"
    THEN LET k == CompositeKey(c.z, c.args) IN <<k[1], k[2], k[5]>>
    ELSE <<c.z, c.args[1], c.args[2]>>

\* dict operations on self._images
Keys(im) == [i \in 1..Len(im) |-> im[i].key]
HasKey(im, k) == \E i \in 1..Len(im) : im[i].key = k
Lookup(im, k) == LET i == CHOOSE j \in 1..Len(im) : im[j].key = k IN im[i].node
Pop(im, k) == SelectSeq(im, LAMBDA e : e.key # k)
Store(im, k, n) ==
    IF HasKey(im, k)
    THEN [i \in 1..Len(im) |-> IF im[i].key = k THEN [key |-> k, node |-> n] ELSE im[i]]
    ELSE Append(im, [key |-> k, node |-> n])

\* the values of self._images
ImageNodes(im) == {im[i].node : i \in 1..Len(im)}

\* scene graph operations
Attach(s, n, st, from) == s \cup {[node |-> n, st |-> st, srcs |-> from]}
DetachForgotten(s, n) == s
Detach(s, n) == {e \in s : e.node # n}
SceneNodes(s) == {e.node : e \in s}

\* queue.Queue operations: put, get (the item and what is left), empty
QueuePutFront(q, c) == <<c>> \o q
QueuePut(q, c) == Append(q, c)
QueueFront(q) == Head(q)
QueueRest(q) == Tail(q)
queue_empty_ignored(q) == TRUE
queue_empty(q) == q = <<>>

\* the sweep comparing the shadowed z with itself: nothing is stale
StaleKeysShadowed(im, zoom_level) == <<>>

\* the keys the sweep of _add_tiles_for_zoom evicts
StaleKeys(im, zoom_level) == SelectSeq(Keys(im), LAMBDA k : k[1] # zoom_level)

\* the command add_tiles_for_current_zoom builds
CompositeCmd(id, v) ==
    [id |-> id, name |-> "_add_tiles_for_zoom", z |-> v[1],
     args |-> <<v[2], v[3], v[4], v[5]>>]

\* the command add_tile builds
TileCmd(id, t, missing) ==
    [id |-> id, name |-> "_add_tile", z |-> t[1], args |-> <<t[2], t[3], missing>>]

\* an update for every move with a button held, modifier or not
NeedsUpdateWithModifiers(e) ==
    \/ e.type = "mouse_wheel"
    \/ /\ e.type = "mouse_move"
       /\ (1 \in e.buttons \/ 2 \in e.buttons)

\* TileCamera.viewbox_mouse_event: does this event request a composite
NeedsUpdate(e) ==
    \/ e.type = "mouse_wheel"
    \/ /\ e.type = "mouse_move"
       /\ \/ 1 \in e.buttons /\ ~e.modifiers
          \/ 2 \in e.buttons /\ ~e.modifiers

\* PanZoomCamera: the viewports the event can move the camera to
CameraTargets(e, v) ==
    IF e.type = "mouse_wheel" THEN Viewports
    ELSE IF e.type = "mouse_move" /\ 1 \in e.buttons /\ ~e.modifiers
         THEN {w \in Viewports : w[1] = v[1]}
    ELSE IF e.type = "mouse_move" /\ 2 \in e.buttons /\ ~e.modifiers
         THEN Viewports
    ELSE {v}

\* an attribution text that is never refreshed
AttributionStale(p) == <<"attribution", InitProvider>>

\* provider.attribution
Attribution(p) == <<"attribution", p>>

----------------------------------------------------------------------------
(* State after MapView.__init__: the worker is started and the constructor's
   assignment to tile_provider has enqueued the first composite. *)

ViewInit ==
    /\ viewport \in WorldViewports
    /\ queue = <<CompositeCmd(1, viewport)>>
    /\ nextId = 2
    /\ images = <<>>
    /\ scene = {}
    /\ lock = "none"
    /\ tile_provider = InitProvider
    /\ attribution = Attribution(InitProvider)
    /\ enabled = TRUE
    /\ wpc = "get"
    /\ cur = NoCmd
    /\ wsnap = <<>>
    /\ wnode = NoNode
    /\ pending = 0
    /\ srcs = {}
    /\ poolerr = FALSE
    /\ uipc = "idle"
    /\ uiop = "none"
    /\ uisnap = <<>>
    /\ uinode = NoNode
    /\ uiold = {}
    /\ log = <<>>
    /\ circles = {}
    /\ markers = 0

\* no direct call of get_tile is being made
GetTileIdle ==
    /\ gt_pc = "idle"
    /\ gt_args = <<>>
    /\ session_log = <<>>
    /\ resp = NoResponse
    /\ rgb = NoResult
    /\ gt_ret = NoResult

\* no call of _merge_tiles is being followed tile by tile
MergeIdle ==
    /\ mt_pc = "idle"
    /\ mt_args = <<>>
    /\ server = <<>>
    /\ results = <<>>
    /\ new_img = NoResult

\* no call of a numeric function is being followed
CallIdle ==
    /\ fn_pc = "idle"
    /\ fn_args = <<>>
    /\ fn_ret = <<>>

\* no RelativeMercatorTransform is being followed
TransformIdle ==
    /\ rmt = NoTransform
    /\ rmt_set = <<0, 0, 0>>
    /\ rmt_ref = <<>>

Init == ViewInit /\ GetTileIdle /\ MergeIdle /\ CallIdle /\ TransformIdle

getTileVars == <<gt_pc, gt_args, session_log, resp, rgb, gt_ret>>
mergeVars == <<mt_pc, mt_args, server, results, new_img>>
callVars == <<fn_pc, fn_args, fn_ret>>
transformVars == <<rmt, rmt_set, rmt_ref>>
fetchVars == <<getTileVars, mergeVars, callVars, transformVars>>
uiVars == <<uipc, uiop, uisnap, uinode, uiold>>
workerVars == <<wpc, cur, wsnap, wnode, pending, srcs, poolerr, log>>
viewVars == <<tile_provider, attribution, enabled, viewport>>
overlayVars == <<circles, markers>>
tileVars == <<queue, nextId, images, scene, lock, viewVars, workerVars, uiVars>>

----------------------------------------------------------------------------
(* The worker thread: tile_controller and the methods it dispatches to *)

\* an except clause around the loop instead of inside it: the thread ends
tile_controller_except_outside_loop ==
    /\ wpc' = "exit"
    /\ log' = Append(log, <<"fail", cur.id>>)
    /\ cur' = NoCmd
    /\ wsnap' = <<>>
    /\ wnode' = NoNode
    /\ srcs' = {}
    /\ poolerr' = FALSE
    /\ UNCHANGED pending

\* the except clause of tile_controller: log, and go round the loop again
tile_controller_except ==
    /\ wpc' = "get"
    /\ log' = Append(log, <<"fail", cur.id>>)
    /\ cur' = NoCmd
    /\ wsnap' = <<>>
    /\ wnode' = NoNode
    /\ srcs' = {}
    /\ poolerr' = FALSE
    /\ UNCHANGED pending

\* data = queue.get(); method = getattr(self, data['name'])
tile_controller_get ==
    /\ wpc = "get"
    /\ queue # <<>>
    /\ cur' = QueueFront(queue)
    /\ queue' = QueueRest(queue)
    /\ wpc' = IF cur'.name = "_add_tiles_for_zoom" THEN "c_check" ELSE "t_check"
    /\ log' = Append(log, <<"start", cur'.id>>)
    /\ UNCHANGED <<nextId, images, scene, lock, viewVars, wsnap, wnode,
                   pending, srcs, poolerr, uiVars>>
    /\ UNCHANGED <<overlayVars, fetchVars>>

\* method(*args) has returned: back to queue.get()
tile_controller_return ==
    /\ wpc = "ret"
    /\ wpc' = "get"
    /\ log' = Append(log, <<"end", cur.id>>)
    /\ cur' = NoCmd
    /\ wsnap' = <<>>
    /\ wnode' = NoNode
    /\ srcs' = {}
    /\ UNCHANGED <<queue, nextId, images, scene, lock, viewVars, pending,
                   poolerr, uiVars>>
    /\ UNCHANGED <<overlayVars, fetchVars>>

\* a composite that fetches and attaches without looking up its key
add_tiles_for_zoom_check_always ==
    /\ wpc = "c_check"
    /\ LET k == CompositeKey(cur.z, cur.args) IN
         /\ wpc' = "merge"
         /\ pending' = Len(Requests(k[1], k[2], k[4], k[3], k[5]))
    /\ UNCHANGED <<queue, nextId, images, scene, lock, viewVars, cur, wsnap,
                   wnode, srcs, poolerr, uiVars, log>>
    /\ UNCHANGED <<overlayVars, fetchVars>>

\* a composite that takes the scene lock before it fetches its tiles
add_tiles_for_zoom_check_locked ==
    /\ wpc = "c_check"
    /\ lock = "none"
    /\ lock' = IF HasKey(images, CompositeKey(cur.z, cur.args)) THEN lock ELSE "worker"
    /\ LET k == CompositeKey(cur.z, cur.args) IN
         IF ~HasKey(images, k)
         THEN /\ wpc' = "merge"
              /\ pending' = Len(Requests(k[1], k[2], k[4], k[3], k[5]))
         ELSE /\ wpc' = "c_snap"
              /\ pending' = pending
    /\ UNCHANGED <<queue, nextId, images, scene, viewVars, cur, wsnap,
                   wnode, srcs, poolerr, uiVars, log>>
    /\ UNCHANGED <<overlayVars, fetchVars>>

\* _add_tiles_for_zoom, lines 271-284: compute the key, test membership
add_tiles_for_zoom_check ==
    /\ wpc = "c_check"
    /\ LET k == CompositeKey(cur.z, cur.args) IN
         IF ~HasKey(images, k)
         THEN /\ wpc' = "merge"
              /\ pending' = Len(Requests(k[1], k[2], k[4], k[3], k[5]))
         ELSE /\ wpc' = "c_snap"
              /\ pending' = pending
    /\ UNCHANGED <<queue, nextId, images, scene, lock, viewVars, cur, wsnap,
                   wnode, srcs, poolerr, uiVars, log>>
    /\ UNCHANGED <<overlayVars, fetchVars>>

\* a pool thread runs MapView.get_tile(z, x, y, REPLACE_WITH_CAT) for one
\* request of starmap; the provider is read when the fetch runs; once a
\* fetch has raised, starmap will raise and the rasters are dropped
get_tile_pool(outcome) ==
    /\ pending > 0
    /\ pending' = pending - 1
    /\ poolerr' = (poolerr \/ outcome = "error")
    /\ srcs' = IF poolerr' THEN {}
               ELSE IF outcome = "ok" THEN srcs \cup {tile_provider} ELSE srcs
    /\ UNCHANGED <<queue, nextId, images, scene, lock, viewVars, wpc, cur,
                   wsnap, wnode, uiVars, log>>
    /\ UNCHANGED <<overlayVars, fetchVars>>

\* a map that returns without waiting for its requests
PoolJoinedEarly(p) == TRUE

\* starmap returns once every request is done
PoolJoined(p) == p = 0

\* a merge that carries on with the rasters it has when a fetch has raised
merge_tiles_join_ignores_error ==
    /\ wpc = "merge"
    /\ PoolJoined(pending)
    /\ wpc' = "img_lock"
    /\ poolerr' = FALSE
    /\ UNCHANGED <<cur, wsnap, wnode, pending, srcs, log>>
    /\ UNCHANGED <<queue, nextId, images, scene, lock, viewVars, uiVars>>
    /\ UNCHANGED <<overlayVars, fetchVars>>

\* _merge_tiles: starmap returns the results or re-raises a fetch's error
merge_tiles_join ==
    /\ wpc = "merge"
    /\ PoolJoined(pending)
    /\ IF poolerr
       THEN tile_controller_except
       ELSE /\ wpc' = "img_lock"
            /\ UNCHANGED <<cur, wsnap, wnode, pending, srcs, poolerr, log>>
    /\ UNCHANGED <<queue, nextId, images, scene, lock, viewVars, uiVars>>
    /\ UNCHANGED <<overlayVars, fetchVars>>

\* _add_rgb_as_image: with self.scene_lock
add_rgb_as_image_lock ==
    /\ wpc = "img_lock"
    /\ lock = "none"
    /\ lock' = "worker"
    /\ wpc' = "img_attach"
    /\ UNCHANGED <<queue, nextId, images, scene, viewVars, cur, wsnap, wnode,
                   pending, srcs, poolerr, uiVars, log>>
    /\ UNCHANGED <<overlayVars, fetchVars>>

\* _add_rgb_as_image: create the Image with parent=self.scene, set its
\* transform, leave the with block
add_rgb_as_image ==
    /\ wpc = "img_attach"
    /\ scene' = Attach(scene, cur.id, CmdTransform(cur), srcs)
    /\ wnode' = cur.id
    /\ lock' = "none"
    /\ wpc' = "store"
    /\ UNCHANGED <<queue, nextId, images, viewVars, cur, wsnap, pending, srcs,
                   poolerr, uiVars, log>>
    /\ UNCHANGED <<overlayVars, fetchVars>>

\* self._images[key] = image (line 287 and line 397)
images_store ==
    /\ wpc = "store"
    /\ images' = Store(images, CmdKey(cur), wnode)
    /\ wnode' = NoNode
    /\ wpc' = IF cur.name = "_add_tiles_for_zoom" THEN "c_snap" ELSE "ret"
    /\ UNCHANGED <<queue, nextId, scene, lock, viewVars, cur, wsnap, pending,
                   srcs, poolerr, uiVars, log>>
    /\ UNCHANGED <<overlayVars, fetchVars>>

\* for key in list(self._images): keep the keys of another zoom
add_tiles_for_zoom_snapshot ==
    /\ wpc = "c_snap"
    /\ wsnap' = StaleKeys(images, cur.z)
    /\ wpc' = "c_evict"
    /\ UNCHANGED <<queue, nextId, images, scene, lock, viewVars, cur, wnode,
                   pending, srcs, poolerr, uiVars, log>>
    /\ UNCHANGED <<overlayVars, fetchVars>>

\* the sweep: remove_tile(key) pops the entry (KeyError if it is gone)
add_tiles_for_zoom_evict ==
    /\ wpc = "c_evict"
    /\ IF wsnap = <<>>
       THEN /\ wpc' = "ret"
            /\ UNCHANGED <<images, cur, wsnap, wnode, pending, srcs, poolerr, log>>
       ELSE IF HasKey(images, Head(wsnap))
       THEN /\ wnode' = Lookup(images, Head(wsnap))
            /\ images' = Pop(images, Head(wsnap))
            /\ wsnap' = Tail(wsnap)
            /\ wpc' = "rm_lock"
            /\ UNCHANGED <<cur, pending, srcs, poolerr, log>>
       ELSE /\ tile_controller_except
            /\ UNCHANGED images
    /\ UNCHANGED <<queue, nextId, scene, lock, viewVars, uiVars>>
    /\ UNCHANGED <<overlayVars, fetchVars>>

\* remove_tile on the worker: with self.scene_lock
remove_tile_worker_lock ==
    /\ wpc = "rm_lock"
    /\ lock = "none"
    /\ lock' = "worker"
    /\ wpc' = "rm_detach"
    /\ UNCHANGED <<queue, nextId, images, scene, viewVars, cur, wsnap, wnode,
                   pending, srcs, poolerr, uiVars, log>>
    /\ UNCHANGED <<overlayVars, fetchVars>>

\* remove_tile on the worker: im.parent = None, leave the with block
remove_tile_worker_detach ==
    /\ wpc = "rm_detach"
    /\ scene' = Detach(scene, wnode)
    /\ lock' = "none"
    /\ wpc' = "c_evict"
    /\ UNCHANGED <<queue, nextId, images, viewVars, cur, wsnap, wnode, pending,
                   srcs, poolerr, uiVars, log>>
    /\ UNCHANGED <<overlayVars, fetchVars>>

\* _add_tile, line 389: if (z, x, y) in self._images
add_tile_check ==
    /\ wpc = "t_check"
    /\ wpc' = IF HasKey(images, CmdKey(cur)) THEN "t_read" ELSE "t_fetch"
    /\ UNCHANGED <<queue, nextId, images, scene, lock, viewVars, cur, wsnap,
                   wnode, pending, srcs, poolerr, uiVars, log>>
    /\ UNCHANGED <<overlayVars, fetchVars>>

\* _add_tile, line 390: im = self._images[z, x, y] (KeyError if it is gone)
add_tile_read ==
    /\ wpc = "t_read"
    /\ IF HasKey(images, CmdKey(cur))
       THEN /\ wnode' = Lookup(images, CmdKey(cur))
            /\ wpc' = "t_scn_lock"
            /\ UNCHANGED <<cur, wsnap, pending, srcs, poolerr, log>>
       ELSE tile_controller_except
    /\ UNCHANGED <<queue, nextId, images, scene, lock, viewVars, uiVars>>
    /\ UNCHANGED <<overlayVars, fetchVars>>

\* scene_images: with self.scene_lock
scene_images_lock ==
    /\ wpc = "t_scn_lock"
    /\ lock = "none"
    /\ lock' = "worker"
    /\ wpc' = "t_scn"
    /\ UNCHANGED <<queue, nextId, images, scene, viewVars, cur, wsnap, wnode,
                   pending, srcs, poolerr, uiVars, log>>
    /\ UNCHANGED <<overlayVars, fetchVars>>

\* scene_images returns the attached Image nodes; _add_tile returns when im
\* is among them and logs an error and re-adds the tile when it is not
add_tile_scene_images ==
    /\ wpc = "t_scn"
    /\ lock' = "none"
    /\ wnode' = NoNode
    /\ IF wnode \in SceneNodes(scene)
       THEN /\ wpc' = "ret"
            /\ log' = log
       ELSE /\ wpc' = "t_fetch"
            /\ log' = log
    /\ UNCHANGED <<queue, nextId, images, scene, viewVars, cur, wsnap, pending,
                   srcs, poolerr, uiVars>>
    /\ UNCHANGED <<overlayVars, fetchVars>>

\* _add_tile, line 395: rgb = self.get_tile(z, x, y, missing) on the worker
add_tile_get_tile(outcome) ==
    /\ wpc = "t_fetch"
    /\ IF outcome = "ok"
       THEN /\ srcs' = {tile_provider}
            /\ wpc' = "img_lock"
            /\ UNCHANGED <<cur, wsnap, wnode, pending, poolerr, log>>
       ELSE IF outcome = "notfound" /\ cur.args[3] \in {"IGNORE", "REPLACE_WITH_CAT"}
       THEN /\ wpc' = "img_lock"
            /\ UNCHANGED <<cur, wsnap, wnode, pending, srcs, poolerr, log>>
       ELSE tile_controller_except
    /\ UNCHANGED <<queue, nextId, images, scene, lock, viewVars, uiVars>>
    /\ UNCHANGED <<overlayVars, fetchVars>>

----------------------------------------------------------------------------
(* The UI thread *)

\* TileCamera.viewbox_mouse_event: with view.scene_lock
viewbox_mouse_event_lock ==
    /\ uipc = "idle"
    /\ lock = "none"
    /\ lock' = "ui"
    /\ uipc' = "cam"
    /\ UNCHANGED <<queue, nextId, images, scene, viewVars, workerVars, uiop,
                   uisnap, uinode, uiold>>
    /\ UNCHANGED <<overlayVars, fetchVars>>

\* TileCamera.viewbox_mouse_event, the body of the with block: the camera
\* handles the event, then a composite is requested unless the map is
\* disabled, the queue is non-empty or the event needs no update
viewbox_mouse_event(e, v) ==
    /\ uipc = "cam"
    /\ v \in CameraTargets(e, viewport)
    /\ viewport' = v
    /\ IF enabled /\ queue_empty(queue) /\ NeedsUpdate(e)
       THEN /\ nextId <= MaxCmds
            /\ queue' = QueuePut(queue, CompositeCmd(nextId, v))
            /\ nextId' = nextId + 1
       ELSE UNCHANGED <<queue, nextId>>
    /\ lock' = "none"
    /\ uipc' = "idle"
    /\ UNCHANGED <<images, scene, tile_provider, attribution, enabled,
                   workerVars, uiop, uisnap, uinode, uiold>>
    /\ UNCHANGED <<overlayVars, fetchVars>>

\* a request that takes the scene lock before it puts its command
add_tiles_for_current_zoom_locked ==
    /\ uipc = "idle"
    /\ lock = "none"
    /\ nextId <= MaxCmds
    /\ queue' = QueuePut(queue, CompositeCmd(nextId, viewport))
    /\ nextId' = nextId + 1
    /\ UNCHANGED <<images, scene, lock, viewVars, workerVars, uiVars>>
    /\ UNCHANGED <<overlayVars, fetchVars>>

\* add_tiles_for_current_zoom called by the application
add_tiles_for_current_zoom ==
    /\ uipc = "idle"
    /\ nextId <= MaxCmds
    /\ queue' = QueuePut(queue, CompositeCmd(nextId, viewport))
    /\ nextId' = nextId + 1
    /\ UNCHANGED <<images, scene, lock, viewVars, workerVars, uiVars>>
    /\ UNCHANGED <<overlayVars, fetchVars>>

\* add_tile(z, x, y, missing) called by the application
add_tile(t, missing) ==
    /\ uipc = "idle"
    /\ nextId <= MaxCmds
    /\ queue' = QueuePut(queue, TileCmd(nextId, t, missing))
    /\ nextId' = nextId + 1
    /\ UNCHANGED <<images, scene, lock, viewVars, workerVars, uiVars>>
    /\ UNCHANGED <<overlayVars, fetchVars>>

\* tile_provider setter, lines 144-145: store the provider, list the keys
tile_provider_set(p) ==
    /\ uipc = "idle"
    /\ nextId <= MaxCmds
    /\ tile_provider' = p
    /\ uisnap' = Keys(images)
    /\ uiold' = ImageNodes(images)
    /\ uiop' = "tile_provider"
    /\ uipc' = "rm_loop"
    /\ UNCHANGED <<queue, nextId, images, scene, lock, attribution, enabled,
                   viewport, workerVars, uinode>>
    /\ UNCHANGED <<overlayVars, fetchVars>>

\* map_enabled setter: True requests a composite, False lists the keys
map_enabled_set(b) ==
    /\ uipc = "idle"
    /\ enabled' = b
    /\ IF b
       THEN /\ nextId <= MaxCmds
            /\ queue' = QueuePut(queue, CompositeCmd(nextId, viewport))
            /\ nextId' = nextId + 1
            /\ UNCHANGED uiVars
       ELSE /\ uisnap' = Keys(images)
            /\ uiold' = ImageNodes(images)
            /\ uiop' = "map_enabled"
            /\ uipc' = "rm_loop"
            /\ UNCHANGED <<queue, nextId, uinode>>
    /\ UNCHANGED <<images, scene, lock, tile_provider, attribution, viewport,
                   workerVars>>
    /\ UNCHANGED <<overlayVars, fetchVars>>

\* the setters' loop: remove_tile(im) pops the entry; a KeyError ends the
\* setter where it is
remove_tile_ui_pop ==
    /\ uipc = "rm_loop"
    /\ uisnap # <<>>
    /\ IF HasKey(images, Head(uisnap))
       THEN /\ uinode' = Lookup(images, Head(uisnap))
            /\ images' = Pop(images, Head(uisnap))
            /\ uisnap' = Tail(uisnap)
            /\ uipc' = "rm_lock"
            /\ uiop' = uiop
            /\ uiold' = uiold
       ELSE /\ uipc' = "idle"
            /\ uiop' = "none"
            /\ uisnap' = <<>>
            /\ uiold' = {}
            /\ UNCHANGED <<images, uinode>>
    /\ UNCHANGED <<queue, nextId, scene, lock, viewVars, workerVars>>
    /\ UNCHANGED <<overlayVars, fetchVars>>

\* remove_tile on the UI thread: with self.scene_lock
remove_tile_ui_lock ==
    /\ uipc = "rm_lock"
    /\ lock = "none"
    /\ lock' = "ui"
    /\ uipc' = "rm_detach"
    /\ UNCHANGED <<queue, nextId, images, scene, viewVars, workerVars, uiop,
                   uisnap, uinode, uiold>>
    /\ UNCHANGED <<overlayVars, fetchVars>>

\* remove_tile on the UI thread: im.parent = None, leave the with block
remove_tile_ui_detach ==
    /\ uipc = "rm_detach"
    /\ scene' = Detach(scene, uinode)
    /\ uinode' = NoNode
    /\ lock' = "none"
    /\ uipc' = "rm_loop"
    /\ UNCHANGED <<queue, nextId, images, viewVars, workerVars, uiop, uisnap,
                   uiold>>
    /\ UNCHANGED <<overlayVars, fetchVars>>

\* the end of the setters: tile_provider requests a composite and sets the
\* attribution text (lines 147-148); map_enabled just returns
setter_return ==
    /\ uipc = "rm_loop"
    /\ uisnap = <<>>
    /\ IF uiop = "tile_provider"
       THEN /\ queue' = QueuePut(queue, CompositeCmd(nextId, viewport))
            /\ nextId' = nextId + 1
            /\ attribution' = Attribution(tile_provider)
       ELSE UNCHANGED <<queue, nextId, attribution>>
    /\ uipc' = "idle"
    /\ uiop' = "none"
    /\ uiold' = {}
    /\ UNCHANGED <<images, scene, lock, tile_provider, enabled, viewport,
                   workerVars, uisnap, uinode>>
    /\ UNCHANGED <<overlayVars, fetchVars>>

----------------------------------------------------------------------------

\* the tile pipeline; the application keeps the provider it has (assigning
\* it again evicts and requests a composite like any assignment)
Next ==
    \/ tile_controller_get
    \/ tile_controller_return
    \/ add_tiles_for_zoom_check
    \/ \E o \in FetchOutcomes : get_tile_pool(o)
    \/ merge_tiles_join
    \/ add_rgb_as_image_lock
    \/ add_rgb_as_image
    \/ images_store
    \/ add_tiles_for_zoom_snapshot
    \/ add_tiles_for_zoom_evict
    \/ remove_tile_worker_lock
    \/ remove_tile_worker_detach
    \/ add_tile_check
    \/ add_tile_read
    \/ scene_images_lock
    \/ add_tile_scene_images
    \/ \E o \in FetchOutcomes : add_tile_get_tile(o)
    \/ viewbox_mouse_event_lock
    \/ \E e \in Events, v \in Viewports : viewbox_mouse_event(e, v)
    \/ add_tiles_for_current_zoom
    \/ \E t \in TileArgs, m \in TileMissing : add_tile(t, m)
    \/ \E p \in {tile_provider} : tile_provider_set(p)
    \/ \E b \in BOOLEAN : map_enabled_set(b)
    \/ remove_tile_ui_pop
    \/ remove_tile_ui_lock
    \/ remove_tile_ui_detach
    \/ setter_return

\* circle(longlat, radius): an Ellipse is attached to the scene and given
\* its transform (after remove_circle when the key is known), without the lock
circle(k) ==
    /\ uipc = "idle"
    /\ circles' = (circles \ {k}) \cup {k}
    /\ UNCHANGED <<markers, tileVars, fetchVars>>

\* remove_circle(longlat, radius): c.parent = None, without the lock
remove_circle(k) ==
    /\ uipc = "idle"
    /\ k \in circles
    /\ circles' = circles \ {k}
    /\ UNCHANGED <<markers, tileVars, fetchVars>>

\* marker_at(longlat): a Markers node is attached to the scene and given its
\* transform, without the lock
marker_at ==
    /\ uipc = "idle"
    /\ markers < MaxMarkers
    /\ markers' = markers + 1
    /\ UNCHANGED <<circles, tileVars, fetchVars>>

OverlayNext ==
    \/ \E k \in CircleKeys : circle(k)
    \/ \E k \in CircleKeys : remove_circle(k)
    \/ marker_at

Spec == Init /\ [][Next]_vars

\* the view with the overlay operations of the application as well
NextOverlay ==
    \/ Next
    \/ OverlayNext

SpecOverlay == Init /\ [][NextOverlay]_vars

\* the view of an application that switches between tile providers while
\* the user moves the camera
NextProvider ==
    \/ tile_controller_get
    \/ tile_controller_return
    \/ add_tiles_for_zoom_check
    \/ \E o \in FetchOutcomes : get_tile_pool(o)
    \/ merge_tiles_join
    \/ add_rgb_as_image_lock
    \/ add_rgb_as_image
    \/ images_store
    \/ add_tiles_for_zoom_snapshot
    \/ add_tiles_for_zoom_evict
    \/ remove_tile_worker_lock
    \/ remove_tile_worker_detach
    \/ viewbox_mouse_event_lock
    \/ \E e \in Events, v \in Viewports : viewbox_mouse_event(e, v)
    \/ \E p \in Providers : tile_provider_set(p)
    \/ remove_tile_ui_pop
    \/ remove_tile_ui_lock
    \/ remove_tile_ui_detach
    \/ setter_return

SpecProvider == Init /\ [][NextProvider]_vars

----------------------------------------------------------------------------
(* Fetching one tile: TileProvider.get_tile and MapView.get_tile *)

\* pixels of one side of a tile
TileSize == 256

\* a provider that passes x to the URL as it got it
WrapXNone(x, z) == x

\* x = x % (2 ** z)
WrapX(x, z) == x % (2^z)

\* self.url(z, x, y): the indices the provider formats into its URL
Url(z, x, y) == [z |-> z, x |-> x, y |-> y]

\* PIL.Image.open(...).convert('RGBA') of the body served for a URL
Decode(url) ==
    [src |-> <<url.z, url.x, url.y>>, h |-> TileSize, w |-> TileSize,
     flipped |-> FALSE]

\* np.flip(raster, 0)
Flip(r) == [r EXCEPT !.flipped = ~r.flipped]

\* _get_cat: the picture of cat-killer-256x256.png, flipped
CatRaster ==
    Flip([src |-> <<"cat-killer-256x256.png">>, h |-> TileSize, w |-> TileSize,
          flipped |-> FALSE])

\* TileProvider.get_tile after _session.get(url) has answered; x is the
\* wrapped x
ProviderResult(z, x, y, r) ==
    IF r = NoResponse
    THEN Result("raise", "ConnectionError", <<>>, <<>>)
    ELSE IF r.status # 200
    THEN Result("raise", "TileNotFoundError", <<z, x, y>>, <<>>)
    ELSE IF ~r.image
    THEN Result("raise", "UnidentifiedImageError", <<>>, <<>>)
    ELSE Result("raster", "", <<>>, Flip(Decode(Url(z, x, y))))

\* a get_tile that lets TileNotFoundError through whatever the policy
ViewGetTileAlwaysRaise(r, missing) == r

\* MapView.get_tile: the try/except around the provider's get_tile
ViewGetTile(r, missing) ==
    IF r.kind = "raise" /\ r.exc = "TileNotFoundError"
    THEN CASE missing = "RAISE" -> r
           [] missing = "IGNORE" -> Result("None", "", <<>>, <<>>)
           [] missing = "REPLACE_WITH_CAT" -> Result("raster", "", <<>>, CatRaster)
           [] OTHER -> r
    ELSE r

\* a direct call get_tile(z, x, y, missing) is about to be made
InitGetTile ==
    /\ ViewInit
    /\ MergeIdle
    /\ CallIdle
    /\ TransformIdle
    /\ gt_pc = "call"
    /\ gt_args \in GetTileZ \X GetTileX \X GetTileY \X OnMissing
    /\ session_log = <<>>
    /\ resp = NoResponse
    /\ rgb = NoResult
    /\ gt_ret = NoResult

\* TileProvider.get_tile, lines 54-57: wrap x, build the URL, request it
provider_get_tile_request ==
    /\ gt_pc = "call"
    /\ session_log' =
         Append(session_log, Url(gt_args[1], WrapX(gt_args[2], gt_args[1]), gt_args[3]))
    /\ gt_pc' = "response"
    /\ UNCHANGED <<gt_args, resp, rgb, gt_ret, mergeVars, tileVars, overlayVars,
                   callVars, transformVars>>

\* a provider that requests the tile a second time after a failure
provider_get_tile_response_retry(r) ==
    /\ gt_pc = "response"
    /\ resp' = r
    /\ IF r.status # 200 /\ Len(session_log) < 2
       THEN gt_pc' = "call" /\ rgb' = rgb
       ELSE /\ rgb' = ProviderResult(gt_args[1], WrapX(gt_args[2], gt_args[1]),
                                     gt_args[3], r)
            /\ gt_pc' = "except"
    /\ UNCHANGED <<gt_args, session_log, gt_ret, mergeVars, tileVars, overlayVars,
                   callVars, transformVars>>

\* TileProvider.get_tile, lines 58-68: the response decides between
\* TileNotFoundError and the decoded, flipped raster
provider_get_tile_response(r) ==
    /\ gt_pc = "response"
    /\ resp' = r
    /\ rgb' = ProviderResult(gt_args[1], WrapX(gt_args[2], gt_args[1]),
                             gt_args[3], r)
    /\ gt_pc' = "except"
    /\ UNCHANGED <<gt_args, session_log, gt_ret, mergeVars, tileVars, overlayVars,
                   callVars, transformVars>>

\* MapView.get_tile, lines 355-365: apply the missing-tile policy
get_tile_return ==
    /\ gt_pc = "except"
    /\ gt_ret' = ViewGetTile(rgb, gt_args[4])
    /\ gt_pc' = "done"
    /\ UNCHANGED <<gt_args, session_log, resp, rgb, mergeVars, tileVars,
                   overlayVars, callVars, transformVars>>

NextGetTile ==
    \/ provider_get_tile_request
    \/ \E r \in Answers : provider_get_tile_response(r)
    \/ get_tile_return

SpecGetTile == InitGetTile /\ [][NextGetTile]_vars

----------------------------------------------------------------------------
(* _merge_tiles followed tile by tile *)

\* the URL the provider requests for get_tile(z, x, y)
TileUrl(z, x, y) == Url(z, WrapX(x, z), y)

\* the URLs of zoom z
TileUrls(z) == {Url(z, x, y) : x \in 0..(2^z - 1), y \in 0..(2^z - 1)}

\* self.get_tile(z, x, y, missing) run by a pool thread against the server
PoolGetTile(req, srv) ==
    ViewGetTile(
        ProviderResult(req[1], WrapX(req[2], req[1]), req[3],
                       srv[TileUrl(req[1], req[2], req[3])]),
        req[4])

RECURSIVE SumH(_)
SumH(rs) == IF rs = <<>> THEN 0 ELSE Head(rs).h + SumH(Tail(rs))
RECURSIVE SumW(_)
SumW(rs) == IF rs = <<>> THEN 0 ELSE Head(rs).w + SumW(Tail(rs))

\* results read row by row where they were requested column by column
NextResultsTransposed(res, c, ny) ==
    [b \in 1..ny |-> res[(b - 1) * (Len(res) \div ny) + c].raster]

\* the inner loop of lines 338-341: the next ny results of the iterator,
\* for column number c (from 1)
NextResults(res, c, ny) ==
    [b \in 1..ny |-> res[(c - 1) * ny + b].raster]

\* np.concatenate(row): the rasters one after the other along axis 0
ConcatAxis0(row) ==
    [blocks |-> row, h |-> SumH(row), w |-> row[1].w]

\* np.concatenate(rows, 1): the columns one after the other along axis 1
ConcatAxis1(rows) ==
    [cols |-> [c \in 1..Len(rows) |-> rows[c].blocks],
     h |-> rows[1].h, w |-> SumW(rows)]

\* _merge_tiles, lines 336-344
MergeResults(res, a) ==
    LET nx == a[4] - a[2] + 1
        ny == a[5] - a[3] + 1
    IN  ConcatAxis1([c \in 1..nx |-> ConcatAxis0(NextResults(res, c, ny))])

\* a call _merge_tiles(z, x0, y0, x1, y1) has handed its requests to the pool
InitMerge ==
    /\ ViewInit
    /\ GetTileIdle
    /\ CallIdle
    /\ TransformIdle
    /\ mt_pc = "starmap"
    /\ mt_args \in MergeRects
    /\ server \in [TileUrls(1) -> MergeAnswers]
    /\ results = [i \in 1..Len(Requests(mt_args[1], mt_args[2], mt_args[3],
                                          mt_args[4], mt_args[5])) |-> NoResult]
    /\ new_img = NoResult

\* a pool thread completes request number i, in any order
merge_get_tile(i) ==
    /\ mt_pc = "starmap"
    /\ i \in 1..Len(results)
    /\ results[i] = NoResult
    /\ results' = [results EXCEPT ![i] =
         PoolGetTile(Requests(mt_args[1], mt_args[2], mt_args[3],
                              mt_args[4], mt_args[5])[i], server)]
    /\ UNCHANGED <<mt_pc, mt_args, server, new_img, getTileVars, tileVars,
                   overlayVars, callVars, transformVars>>

\* starmap returns or re-raises; the results are concatenated
merge_tiles_concatenate ==
    /\ mt_pc = "starmap"
    /\ \A i \in 1..Len(results) : results[i] # NoResult
    /\ new_img' =
         IF \E i \in 1..Len(results) : results[i].kind = "raise"
         THEN LET i == CHOOSE j \in 1..Len(results) : results[j].kind = "raise"
              IN  results[i]
         ELSE Result("raster", "", <<>>, MergeResults(results, mt_args))
    /\ mt_pc' = "done"
    /\ UNCHANGED <<mt_args, server, results, getTileVars, tileVars, overlayVars,
                   callVars, transformVars>>

NextMerge ==
    \/ \E i \in 1..4 : merge_get_tile(i)
    \/ merge_tiles_concatenate

SpecMerge == InitMerge /\ [][NextMerge]_vars

----------------------------------------------------------------------------

\* the steps of the worker thread and of the pool's threads
WorkerNext ==
    \/ tile_controller_get
    \/ tile_controller_return
    \/ add_tiles_for_zoom_check
    \/ merge_tiles_join
    \/ add_rgb_as_image
    \/ images_store
    \/ add_tiles_for_zoom_snapshot
    \/ add_tiles_for_zoom_evict
    \/ remove_tile_worker_detach
    \/ add_tile_check
    \/ add_tile_read
    \/ add_tile_scene_images
    \/ \E o \in FetchOutcomes : add_tile_get_tile(o)

PoolNext == \E o \in FetchOutcomes : get_tile_pool(o)

\* the steps in which the UI thread leaves a with self.scene_lock block
UIRelease ==
    \/ \E e \in Events, v \in Viewports : viewbox_mouse_event(e, v)
    \/ remove_tile_ui_detach

\* the worker and the pool threads keep running, every fetch returns, a
\* thread that holds the scene lock leaves its with block, and the worker
\* gets the lock if it is free again and again
Fairness ==
    /\ WF_vars(WorkerNext)
    /\ WF_vars(PoolNext)
    /\ WF_vars(UIRelease)
    /\ SF_vars(add_rgb_as_image_lock)
    /\ SF_vars(remove_tile_worker_lock)
    /\ SF_vars(scene_images_lock)

SpecLive == Init /\ [][Next]_vars /\ Fairness

----------------------------------------------------------------------------
(* Properties *)

Composite(c) == c.name = "_add_tiles_for_zoom"
\* both threads are between operations
Quiescent == wpc = "get" /\ uipc = "idle"

\* C1: whenever every add and evict operation has run to completion, the
\* number of entries of _images equals the number of Image nodes attached
\* to the scene.
SceneEntryConsistency ==
    Quiescent => Len(images) = Cardinality(SceneNodes(scene))

\* two commands have completed, the first one's entry was added and evicted
\* again, the second one's is tracked
SceneEntryConsistencyWitness ==
    /\ Quiescent
    /\ Len(log) = 4
    /\ log[2] = <<"end", 1>>
    /\ log[4] = <<"end", 2>>
    /\ Len(images) = 1
    /\ images[1].node = 2

\* C2: a thread that holds the scene lock never sees an Image node attached
\* without its _images entry, nor an entry whose node is not attached.
LockHolderSeesConsistentScene ==
    lock # "none" => SceneNodes(scene) = ImageNodes(images)

\* C3: every step that attaches or detaches a node of the scene (tile
\* images, circles, markers) is taken by the thread that holds the scene lock.
SceneMutationsHoldLock ==
    [][ (scene' # scene \/ circles' # circles \/ markers' # markers)
          => IF wpc' # wpc THEN lock = "worker" ELSE lock = "ui" ]_vars

\* C4: _images and the tile Image nodes of the scene are changed by steps of
\* the worker thread only.
OnlyWorkerMutatesTiles ==
    [][ (images' # images \/ scene' # scene) => wpc' # wpc ]_vars

\* C5: a step in which the executing command raises leaves the worker at
\* queue.get() with the queue as it was: the thread does not end and no
\* later command is lost.
WorkerSurvivesFailure ==
    [][ (Len(log') = Len(log) + 1 /\ log'[Len(log')][1] = "fail")
          => (wpc' = "get" /\ queue' = queue) ]_vars

\* a command has failed and a later command has been started
WorkerSurvivesFailureWitness ==
    \E i, j \in 1..Len(log) : i < j /\ log[i][1] = "fail" /\ log[j][1] = "start"

\* C6: commands are executed in the order they were enqueued, one after the
\* other: the log is start 1, end 1, start 2, end 2, ... (end or fail).
FifoExecution ==
    \A i \in 1..Len(log) :
        IF i % 2 = 1
        THEN log[i] = <<"start", (i + 1) \div 2>>
        ELSE log[i][1] \in {"end", "fail"} /\ log[i][2] = i \div 2

\* the second command was started while put after the first one
FifoExecutionWitness ==
    Len(log) >= 3 /\ log[3] = <<"start", 2>>

\* C7: fetches of the pool are outstanding only while the worker is inside
\* _merge_tiles of the composite it is executing: none is left when the
\* command completes or the next one is dequeued.
PoolJoinedBeforeNextCommand ==
    pending > 0 => (wpc = "merge" /\ Composite(cur))

\* fetches are outstanding while the next composite waits in the queue
PoolJoinedBeforeNextCommandWitness ==
    pending > 0 /\ queue # <<>> /\ Composite(queue[1])

\* C8 (as stated): the queue never holds more than one composite command.
AtMostOneCompositeQueued ==
    Cardinality({i \in 1..Len(queue) : Composite(queue[i])}) <= 1

\* C8 (amended): a camera event puts a composite on the queue only when the
\* queue is empty: it leaves a non-empty queue as it is.
CameraEventCoalesces ==
    [][ (uipc = "cam" /\ uipc' = "idle")
          => (queue' = queue \/ (queue = <<>> /\ Len(queue') = 1)) ]_vars

\* the camera has moved while the constructor's composite was the only
\* command ever enqueued: the event that moved it was skipped
CameraEventCoalescesWitness ==
    /\ uipc = "idle"
    /\ nextId = 2
    /\ Len(queue) = 1
    /\ viewport # <<queue[1].z>> \o queue[1].args

\* C9: once interaction has stopped (the UI thread is idle and nothing is
\* queued) and the last composite has completed, the viewport's composite is
\* in _images.
FinalViewportComposited ==
    (wpc = "ret" /\ Composite(cur) /\ queue = <<>> /\ uipc = "idle" /\ enabled)
        => HasKey(images, CompositeKey(viewport[1], SubSeq(viewport, 2, 5)))

\* C10: when _add_tiles_for_zoom completes without error, every entry of
\* _images has the command's zoom, and no node is attached to the scene
\* without an entry (but one the UI thread is removing at that moment).
CompositeSweepsStaleZoom ==
    (wpc = "ret" /\ Composite(cur))
        => /\ \A i \in 1..Len(images) : images[i].key[1] = cur.z
           /\ \A n \in SceneNodes(scene) : n \in ImageNodes(images) \/ n = uinode

\* the second composite completes after its sweep has evicted and detached
\* the node of the first
CompositeSweepsStaleZoomWitness ==
    /\ wpc = "ret"
    /\ Composite(cur)
    /\ cur.id = 2
    /\ log = <<(<<"start", 1>>), (<<"end", 1>>), (<<"start", 2>>)>>
    /\ wnode = 1
    /\ uipc = "idle"
    /\ Len(images) = 1
    /\ images[1].node = 2
    /\ SceneNodes(scene) = {2}

\* C11: when a composite completes, _images holds at most one entry with the
\* zoom of that command, also after commands of the same zoom with different
\* tile bounds.
AtMostOneEntryAtCurrentZoom ==
    (wpc = "ret" /\ Composite(cur))
        => Cardinality({i \in 1..Len(images) :
                           Len(images[i].key) = 5 /\ images[i].key[1] = cur.z}) <= 1

\* C13: while map_enabled is False, once the setter has returned and the
\* worker has drained the queue, _images is empty and no tile Image node is
\* attached.
DisabledMapShowsNoTiles ==
    (~enabled /\ uipc = "idle" /\ wpc = "get" /\ queue = <<>>)
        => (images = <<>> /\ scene = {})

\* C14: add_tiles_for_current_zoom can put its command whenever the
\* application calls it, whatever the worker is doing and whoever holds the
\* scene lock (as long as the model has a command id left).
CompositeRequestNeverBlocks ==
    (uipc = "idle" /\ nextId <= MaxCmds) => ENABLED add_tiles_for_current_zoom

\* two composites are queued while the worker holds the scene lock and
\* fetches of an earlier composite cannot be outstanding: the second was put
\* without the queue being empty
CompositeRequestNeverBlocksWitness ==
    /\ lock = "worker"
    /\ uipc = "idle"
    /\ Len(queue) = 2
    /\ Composite(queue[1])
    /\ Composite(queue[2])
    /\ queue[2].id = 3

\* C12: when the tile_provider setter returns, every entry _images held at
\* the assignment is out of _images and detached, one composite command for
\* the current viewport has been put on the queue, and the attribution text
\* is the attribution of the provider the view now has.
TileProviderSetterPostcondition ==
    [][ (uiop = "tile_provider" /\ uipc = "rm_loop" /\ uisnap = <<>>
            /\ uipc' = "idle")
          => /\ \A n \in uiold :
                    n \notin ImageNodes(images') /\ n \notin SceneNodes(scene')
             /\ queue' = Append(queue, CompositeCmd(nextId, viewport'))
             /\ attribution' = <<"attribution", tile_provider'>>
             /\ tile_provider' = tile_provider ]_vars

\* the setter has returned after it evicted the first composite's entry:
\* the provider and the attribution are the new ones and the setter's
\* composite is the only command queued
TileProviderSetterPostconditionWitness ==
    /\ uipc = "idle"
    /\ tile_provider = "p2"
    /\ attribution = <<"attribution", "p2">>
    /\ log = <<(<<"start", 1>>), (<<"end", 1>>)>>
    /\ images = <<>>
    /\ scene = {}
    /\ Len(queue) = 1
    /\ queue[1] = CompositeCmd(2, viewport)

\* C15: every command that was put on the queue is dequeued and executed
\* (its start and its end or failure are logged), and the worker ends up
\* waiting on the empty queue.
ControllerReturnsToIdle ==
    <>[](queue = <<>> /\ wpc = "get" /\ Len(log) = 2 * (nextId - 1))

\* every command id of the model was enqueued and has been executed, and
\* the worker waits on the empty queue
ControllerReturnsToIdleWitness ==
    /\ queue = <<>>
    /\ wpc = "get"
    /\ nextId = MaxCmds + 1
    /\ Len(log) = 2 * MaxCmds

\* C18: when the provider reports the tile as not found (a status other
\* than 200, raised as TileNotFoundError), get_tile re-raises it
\* under RAISE, returns None under IGNORE and returns the fallback raster,
\* which has the size of a tile, under REPLACE_WITH_CAT; a raster the
\* provider returned is returned as it is under every policy.
MissingTilePolicy ==
    gt_pc = "done" =>
        IF resp.status = 200 /\ resp.image
        THEN gt_ret = rgb /\ rgb.kind = "raster"
        ELSE IF resp.status \notin {0, 200}
        THEN CASE gt_args[4] = "RAISE" ->
                    gt_ret.kind = "raise" /\ gt_ret.exc = "TileNotFoundError"
               [] gt_args[4] = "IGNORE" -> gt_ret.kind = "None"
               [] gt_args[4] = "REPLACE_WITH_CAT" ->
                    /\ gt_ret.kind = "raster"
                    /\ gt_ret.raster.src = <<"cat-killer-256x256.png">>
                    /\ gt_ret.raster.h = 256 /\ gt_ret.raster.w = 256
        ELSE TRUE

\* a tile the server answers with 404 was asked for with REPLACE_WITH_CAT
\* and the call has returned a raster
MissingTilePolicyWitness ==
    /\ gt_pc = "done"
    /\ gt_args[4] = "REPLACE_WITH_CAT"
    /\ resp.status = 404
    /\ rgb.exc = "TileNotFoundError"
    /\ gt_ret.kind = "raster"

\* C19: the URL requested has the z and the y of the call and an x in
\* 0 .. 2^z - 1 that differs from the x of the call by a multiple of 2^z.
UrlWrapsX ==
    gt_pc # "call" =>
        /\ session_log[1].z = gt_args[1]
        /\ session_log[1].y = gt_args[3]
        /\ session_log[1].x \in 0..(2^gt_args[1] - 1)
        /\ \E k \in -9..9 : gt_args[2] = session_log[1].x + k * 2^gt_args[1]

\* get_tile(3, 9, 2) has requested the URL of x = 1
UrlWrapsXWitness ==
    /\ gt_pc = "done"
    /\ gt_args[1] = 3 /\ gt_args[2] = 9 /\ gt_args[3] = 2
    /\ session_log = <<[z |-> 3, x |-> 1, y |-> 2]>>

\* C20: once the provider's get_tile is over, it has made exactly one
\* request, and if the status was not 200 it has raised TileNotFoundError
\* with the zoom, the x requested and the y.
NonSuccessRaisesOnce ==
    gt_pc \in {"except", "done"} =>
        /\ Len(session_log) = 1
        /\ resp.status \notin {0, 200} =>
              /\ rgb.kind = "raise"
              /\ rgb.exc = "TileNotFoundError"
              /\ rgb.args = <<session_log[1].z, session_log[1].x, session_log[1].y>>

\* the provider has raised TileNotFoundError after a single request
NonSuccessRaisesOnceWitness ==
    /\ gt_pc = "except"
    /\ resp.status = 500
    /\ rgb.exc = "TileNotFoundError"
    /\ Len(session_log) = 1

\* C16: in the raster _merge_tiles returns, the block of column x - x0 and
\* of number y1 - y along the first axis is the raster fetched for tile
\* (x, y) (the server's tile, or the fallback where the server has none),
\* whatever the order in which the fetches completed.
MergePlacement ==
    (mt_pc = "done" /\ new_img.kind = "raster") =>
        \A x \in mt_args[2]..mt_args[4], y \in mt_args[3]..mt_args[5] :
            LET u == [z |-> mt_args[1], x |-> x % 2^mt_args[1], y |-> y]
                block == new_img.raster.cols[x - mt_args[2] + 1][mt_args[5] - y + 1]
            IN  IF server[u].status = 200
                THEN block.src = <<u.z, u.x, u.y>>
                ELSE block.src = <<"cat-killer-256x256.png">>

\* a rectangle of two columns and two rows has been merged, with a fallback
\* raster for the one tile the server does not have
MergePlacementWitness ==
    /\ mt_pc = "done"
    /\ new_img.kind = "raster"
    /\ mt_args = <<1, 0, 0, 1, 1>>
    /\ server[[z |-> 1, x |-> 1, y |-> 0]].status = 404
    /\ \A u \in DOMAIN server : u # [z |-> 1, x |-> 1, y |-> 0] => server[u].status = 200

\* C17: _merge_tiles returns a raster 256 * (x1 - x0 + 1) wide and
\* 256 * (y1 - y0 + 1) tall and does not raise, whichever tiles cannot be
\* fetched.
MergeReturnsFullRaster ==
    mt_pc = "done" =>
        /\ new_img.kind = "raster"
        /\ new_img.raster.w = 256 * (mt_args[4] - mt_args[2] + 1)
        /\ new_img.raster.h = 256 * (mt_args[5] - mt_args[3] + 1)

\* C21: once the provider's get_tile is over, a response that is not 200 or
\* whose body cannot be decoded has been raised as TileNotFoundError and as
\* no other kind of error.
FetchFailureIsTileNotFound ==
    (gt_pc \in {"except", "done"} /\ resp # NoResponse
        /\ (resp.status # 200 \/ ~resp.image)) =>
        /\ rgb.kind = "raise"
        /\ rgb.exc = "TileNotFoundError"

----------------------------------------------------------------------------
(* The numeric functions, each followed as a call of its own: the part of
   _add_tiles_for_zoom that chooses the rectangle, tile_zoom_level, _fix_y,
   and the map and imap of the two projection transforms.

   Angles and ratios are held in millionths (the integer n stands for
   n / 1000000) and Mercator coordinates in whole meters; every product and
   quotient is arranged to stay within 32 bits, and the elementary functions
   are evaluated by their series, to about 1e-5.  The argument of _fix_y is
   held exactly as [b, k], standing for b * 20037508.342789244 + k meters. *)

MaxLog2 == 30
MaxOffset == 3

\* the arguments tried, headed by the name of what is called:
\* _add_tiles_for_zoom: z, northwest.x, northwest.y, southeast.x, southeast.y
\*   as current_bounds can return them (rows within 0..2^z - 1, north first);
\* tile_zoom_level: log2(merc_per_pixel), at the quarter octaves from
\*   2^-MaxLog2 to 2^MaxLog2 and at 1e9, so that np.log2 needs no table;
\* _fix_y: y around 0, around each bound and far outside;
\* MercatorTransform: a row (lon, lat, z) in degrees;
\* RelativeMercatorTransform: the reference point in degrees and a row
\*   (x, y, z) in meters
CallArgs ==
    { a \in {"_add_tiles_for_zoom"} \X (0..3) \X (-1..2) \X (0..7) \X (-1..3) \X (0..7) :
        a[3] <= a[5] /\ a[4] <= a[6] /\ a[6] <= 2^a[2] - 1 }
    \cup { <<"tile_zoom_level", l>> :
             l \in {k * 250000 : k \in (-4 * MaxLog2)..(4 * MaxLog2)} \cup {29897353} }
    \cup { <<"_fix_y", [b |-> b, k |-> k]>> : b \in {-1, 0, 1}, k \in (-MaxOffset)..MaxOffset }
    \cup { <<"_fix_y", [b |-> 0, k |-> k]>> :
             k \in {-21000000, -20037509, -20037508, 20037508, 20037509, 21000000} }
    \cup { <<"MercatorTransform", lon * 1000000, lat * 1000000, z>> :
             lon \in {-180, -45, 0, 90, 180}, lat \in {-80, -45, 0, 30, 60, 80},
             z \in {0, 7} }
    \cup { <<"RelativeMercatorTransform", lon * 1000000, lat * 1000000, x, y, z>> :
             lon \in {-122, 0, 100}, lat \in {-60, 0, 35, 60},
             x \in {-1000000, 0, 10000}, y \in {-1000000, 0, 10000}, z \in {0, 7} }

\* self.zoom_cal = 17.256199785269995 + 0.5
zoom_cal == 17756200

\* Python's int() of a float: the fraction is dropped, towards zero
int(v) == IF v >= 0 THEN v \div 1000000 ELSE -((-v) \div 1000000)

\* a zoom level that is truncated but not clamped
tile_zoom_level_unclamped(l) == int(-l + zoom_cal)

\* tile_zoom_level for log2(merc_per_pixel) = l
tile_zoom_level(l) ==
    LET zoom == int(-l + zoom_cal)
    IN  IF zoom < 0 THEN 0 ELSE zoom

\* self._web_mercator_bounds = 20037508.342789244, in centimeters, rounded down
BoundsCm == 2003750834

_web_mercator_bounds == [b |-> 1, k |-> 0]

\* v in centimeters, rounded down; whole meters never coincide with a value
\* that has the bound's fraction, so the order of two values is the order of
\* their roundings
Cm(v) == v.b * BoundsCm + v.k * 100
Leq(v, w) == Cm(v) <= Cm(w)

\* a _fix_y that stops at the bound itself
_fix_y_to_bound(y) ==
    IF Leq(_web_mercator_bounds, y) THEN _web_mercator_bounds
    ELSE IF Leq(y, [b |-> -1, k |-> 0]) THEN [b |-> -1, k |-> 0]
    ELSE y

\* _fix_y, lines 231-237: bounds - 1 at and above the bound, -bounds + 1 at
\* and below its negative
_fix_y(y) ==
    IF Leq(_web_mercator_bounds, y) THEN [b |-> 1, k |-> -1]
    ELSE IF Leq(y, [b |-> -1, k |-> 0]) THEN [b |-> -1, k |-> 1]
    ELSE y

\* radius of Earth, in meters
R == 6378137

\* pi, in millionths
M_PI == 3141593

Abs(a) == IF a < 0 THEN -a ELSE a
Sign(a) == IF a < 0 THEN -1 ELSE 1

\* a / n for an integer n, rounded towards zero
Quot(a, n) == Sign(a) * Sign(n) * (Abs(a) \div Abs(n))

\* a * b / 1000000, rounded towards zero
MulMicro(a, b) ==
    LET a1 == Abs(a) \div 1000
        a0 == Abs(a) % 1000
        b1 == Abs(b) \div 1000
        b0 == Abs(b) % 1000
    IN  Sign(a) * Sign(b) *
            (a1 * b1 + (a1 * b0 + a0 * b1 + (a0 * b0) \div 1000) \div 1000)

\* the first n decimals of r / b, for 0 <= r < b
RECURSIVE Decimals(_, _, _)
Decimals(r, b, n) ==
    IF n = 0 THEN 0
    ELSE ((r * 10) \div b) * 10^(n - 1) + Decimals((r * 10) % b, b, n - 1)

\* a * 1000000 / b, rounded towards zero
DivMicro(a, b) ==
    Sign(a) * Sign(b) *
        ((Abs(a) \div Abs(b)) * 1000000 + Decimals(Abs(a) % Abs(b), Abs(b), 6))

\* term + term * (-x2) / ((k + 1)(k + 2)) + ..., the series of sin and cos
RECURSIVE Alternating(_, _, _)
Alternating(x2, term, k) ==
    IF term = 0 THEN 0
    ELSE term + Alternating(x2, Quot(-MulMicro(term, x2), (k + 1) * (k + 2)), k + 2)

cos(x) == Alternating(MulMicro(x, x), 1000000, 0)
tan(x) == DivMicro(Alternating(MulMicro(x, x), x, 1), cos(x))

\* pw / k + pw * u2 / (k + 2) + ..., the series of atanh (u2 = u * u) and
\* of atan (u2 = -u * u)
RECURSIVE Odd(_, _, _)
Odd(u2, pw, k) ==
    IF pw = 0 THEN 0
    ELSE Quot(pw, k) + Odd(u2, MulMicro(pw, u2), k + 2)

\* natural logarithm of v > 0
RECURSIVE ln(_)
ln(v) ==
    IF v >= 1500000 THEN 693147 + ln(v \div 2)
    ELSE IF v < 750000 THEN ln(2 * v) - 693147
    ELSE LET u == DivMicro(v - 1000000, v + 1000000)
         IN  2 * Odd(MulMicro(u, u), u, 1)

\* 1 + t + t * t / 2 + ...
RECURSIVE Powers(_, _, _)
Powers(t, term, k) ==
    IF term = 0 THEN 0
    ELSE term + Powers(t, Quot(MulMicro(term, t), k + 1), k + 1)

RECURSIVE exp(_)
exp(t) ==
    IF Abs(t) > 500000
    THEN LET h == exp(Quot(t, 2)) IN MulMicro(h, h)
    ELSE Powers(t, 1000000, 0)

RECURSIVE atan(_)
atan(v) ==
    IF v < 0 THEN -atan(-v)
    ELSE IF v > 2414214 THEN M_PI \div 2 - atan(DivMicro(1000000, v))
    ELSE IF v > 414214 THEN M_PI \div 4 + atan(DivMicro(v - 1000000, v + 1000000))
    ELSE Odd(-MulMicro(v, v), v, 1)

radians(deg) == Quot(MulMicro(deg, M_PI), 180)
degrees(rad) == MulMicro(rad, 57295780)

\* a float: a number ("num") or one of the values arithmetic gives in its
\* place ("nan", "inf", "-inf")
Float(k, v) == [k |-> k, v |-> v]

\* arithmetic on a float: v where f is a number, f itself where it is not
OnNum(f, v) == IF f.k = "num" THEN Float("num", v) ELSE f

\* np.log: -inf at 0 and nan below it
np_log(v) ==
    IF v > 0 THEN Float("num", ln(v))
    ELSE IF v = 0 THEN Float("-inf", 0) ELSE Float("nan", 0)

\* np.exp and np.atan
np_exp(f) == IF f.k = "-inf" THEN Float("num", 0) ELSE OnNum(f, exp(f.v))
np_atan(f) ==
    CASE f.k = "-inf" -> Float("num", -(M_PI \div 2))
      [] f.k = "inf" -> Float("num", M_PI \div 2)
      [] OTHER -> OnNum(f, atan(f.v))

\* the GLSL functions long_to_x, lat_to_y, x_to_long, y_to_lat; lat_to_y is
\* applied to latitudes strictly between -90 and 90 degrees only
long_to_x(lon) == MulMicro(R, radians(lon))
lat_to_y(lat) == MulMicro(R, ln(tan(M_PI \div 4 + radians(lat) \div 2)))
x_to_long(x) == degrees(DivMicro(x, R))
y_to_lat(y) == degrees(2 * atan(exp(DivMicro(y, R))) - M_PI \div 2)

\* MercatorTransform.glsl_map and glsl_imap on pos = <<x, y, z>>
MercatorTransform_glsl_map(pos) ==
    <<Float("num", long_to_x(pos[1])), Float("num", lat_to_y(pos[2])), pos[3]>>
MercatorTransform_glsl_imap(pos) ==
    <<Float("num", x_to_long(pos[1].v)), Float("num", y_to_lat(pos[2].v)), pos[3]>>

\* MercatorTransform.map, lines 130-139, on one row coords = <<lon, lat, z>>
MercatorTransform_map(coords) ==
    LET lambda_ == radians(coords[1])
        phi == radians(coords[2])
        log_tan == np_log(tan(MulMicro(M_PI \div 4, phi) \div 2))
    IN  <<Float("num", MulMicro(R, radians(lambda_))),
          OnNum(log_tan, MulMicro(R, log_tan.v)),
          coords[3]>>

\* MercatorTransform.imap, lines 141-152, on one row coords = <<x, y, z>>
MercatorTransform_imap(coords) ==
    LET x == coords[1]
        y == coords[2]
        lambda_ == OnNum(x, DivMicro(x.v, R))
        e == np_exp(OnNum(y, DivMicro(y.v, R)))
        a == np_atan(OnNum(e, e.v - M_PI \div 2))
        phi == OnNum(a, 2 * a.v)
    IN  <<OnNum(lambda_, degrees(lambda_.v)), OnNum(phi, degrees(phi.v)), coords[3]>>

\* offset_coord without the cosine of the latitude
offset_coord_flat(long, lat, x, y) ==
    LET d_lat == DivMicro(y, R)
        d_long == DivMicro(x, R)
    IN  <<long + DivMicro(d_long * 180, M_PI), lat + DivMicro(d_lat * 180, M_PI)>>

\* offset_coord, lines 73-82
offset_coord(long, lat, x, y) ==
    LET d_lat == DivMicro(y, R)
        d_long == DivMicro(x, MulMicro(R, cos(Quot(MulMicro(M_PI, lat), 180))))
    IN  <<long + DivMicro(d_long * 180, M_PI), lat + DivMicro(d_lat * 180, M_PI)>>

\* mercantile.xy(lng, lat): the forward Mercator projection, in meters
mercantile_xy(lng, lat) ==
    <<Float("num", MulMicro(R, radians(lng))),
      IF lat <= -90000000 THEN Float("-inf", 0)
      ELSE IF lat >= 90000000 THEN Float("inf", 0)
      ELSE Float("num", MulMicro(R, ln(tan(M_PI \div 4 + radians(lat) \div 2))))>>

\* RelativeMercatorTransform.map, lines 231-241, on one row <<x, y, z>> of a
\* transform whose reference point is (longitude, latitude)
RelativeMercatorTransform_map(longitude, latitude, coords) ==
    LET ll == offset_coord(longitude, latitude, coords[1], coords[2])
        xy == mercantile_xy(ll[1], ll[2])
    IN  <<xy[1], xy[2], coords[3]>>

\* RelativeMercatorTransform.glsl_map, lines 168-187, with $lon and $lat
RelativeMercatorTransform_glsl_map(lon, lat, pos) ==
    LET lat_to_add == y_to_lat(pos[2])
        lat_fin == lat + lat_to_add
        long_offs == degrees(DivMicro(pos[1], MulMicro(R, cos(radians(lat)))))
    IN  <<Float("num", long_to_x(lon + long_offs)), Float("num", lat_to_y(lat_fin)), pos[3]>>

\* one of the functions is about to be called; the rows the transforms
\* compute are still empty
InitCalls ==
    /\ ViewInit
    /\ GetTileIdle
    /\ MergeIdle
    /\ TransformIdle
    /\ fn_pc = "call"
    /\ fn_args \in CallArgs
    /\ fn_ret = [map |-> <<>>, imap_of_map |-> <<>>, glsl_map |-> <<>>,
                 imap |-> <<>>, glsl_imap |-> <<>>]

\* _add_tiles_for_zoom, lines 270-285: the key and the requests of the
\* rectangle handed to _merge_tiles
add_tiles_for_zoom_rect ==
    /\ fn_pc = "call"
    /\ fn_args[1] = "_add_tiles_for_zoom"
    /\ LET key == CompositeKey(fn_args[2], <<fn_args[3], fn_args[4], fn_args[5], fn_args[6]>>)
       IN  fn_ret' = [key |-> key,
                      requests |-> Requests(key[1], key[2], key[4], key[3], key[5])]
    /\ fn_pc' = "done"
    /\ UNCHANGED <<fn_args, transformVars, getTileVars, mergeVars, tileVars, overlayVars>>

tile_zoom_level_return ==
    /\ fn_pc = "call"
    /\ fn_args[1] = "tile_zoom_level"
    /\ fn_ret' = tile_zoom_level(fn_args[2])
    /\ fn_pc' = "done"
    /\ UNCHANGED <<fn_args, transformVars, getTileVars, mergeVars, tileVars, overlayVars>>

\* _fix_y(y)
fix_y_return ==
    /\ fn_pc = "call"
    /\ fn_args[1] = "_fix_y"
    /\ fn_ret' = <<_fix_y(fn_args[2])>>
    /\ fn_pc' = "again"
    /\ UNCHANGED <<fn_args, transformVars, getTileVars, mergeVars, tileVars, overlayVars>>

\* _fix_y of what _fix_y returned
fix_y_again ==
    /\ fn_pc = "again"
    /\ fn_ret' = Append(fn_ret, _fix_y(fn_ret[1]))
    /\ fn_pc' = "done"
    /\ UNCHANGED <<fn_args, transformVars, getTileVars, mergeVars, tileVars, overlayVars>>

\* MercatorTransform().map(<<lon, lat, z>>)
mercator_map ==
    /\ fn_pc = "call"
    /\ fn_args[1] = "MercatorTransform"
    /\ fn_ret' = [fn_ret EXCEPT !.map =
                    MercatorTransform_map(<<fn_args[2], fn_args[3], fn_args[4]>>)]
    /\ fn_pc' = "imap_of_map"
    /\ UNCHANGED <<fn_args, transformVars, getTileVars, mergeVars, tileVars, overlayVars>>

\* imap of the row map returned
mercator_imap_of_map ==
    /\ fn_pc = "imap_of_map"
    /\ fn_ret' = [fn_ret EXCEPT !.imap_of_map = MercatorTransform_imap(fn_ret.map)]
    /\ fn_pc' = "glsl_map"
    /\ UNCHANGED <<fn_args, transformVars, getTileVars, mergeVars, tileVars, overlayVars>>

\* the shader's map of the same <<lon, lat, z>>
mercator_glsl_map ==
    /\ fn_pc = "glsl_map"
    /\ fn_args[1] = "MercatorTransform"
    /\ fn_ret' = [fn_ret EXCEPT !.glsl_map =
                    MercatorTransform_glsl_map(<<fn_args[2], fn_args[3], fn_args[4]>>)]
    /\ fn_pc' = "imap"
    /\ UNCHANGED <<fn_args, transformVars, getTileVars, mergeVars, tileVars, overlayVars>>

\* MercatorTransform().imap of the Mercator point the shader's map gave
mercator_imap ==
    /\ fn_pc = "imap"
    /\ fn_ret' = [fn_ret EXCEPT !.imap = MercatorTransform_imap(fn_ret.glsl_map)]
    /\ fn_pc' = "glsl_imap"
    /\ UNCHANGED <<fn_args, transformVars, getTileVars, mergeVars, tileVars, overlayVars>>

\* the shader's imap of the same Mercator point
mercator_glsl_imap ==
    /\ fn_pc = "glsl_imap"
    /\ fn_ret' = [fn_ret EXCEPT !.glsl_imap = MercatorTransform_glsl_imap(fn_ret.glsl_map)]
    /\ fn_pc' = "done"
    /\ UNCHANGED <<fn_args, transformVars, getTileVars, mergeVars, tileVars, overlayVars>>

\* RelativeMercatorTransform(lon, lat).map(<<x, y, z>>)
relative_map ==
    /\ fn_pc = "call"
    /\ fn_args[1] = "RelativeMercatorTransform"
    /\ fn_ret' = [fn_ret EXCEPT !.map =
                    RelativeMercatorTransform_map(fn_args[2], fn_args[3],
                        <<fn_args[4], fn_args[5], fn_args[6]>>)]
    /\ fn_pc' = "glsl_map"
    /\ UNCHANGED <<fn_args, transformVars, getTileVars, mergeVars, tileVars, overlayVars>>

\* the shader's map of the same <<x, y, z>>
relative_glsl_map ==
    /\ fn_pc = "glsl_map"
    /\ fn_args[1] = "RelativeMercatorTransform"
    /\ fn_ret' = [fn_ret EXCEPT !.glsl_map =
                    RelativeMercatorTransform_glsl_map(fn_args[2], fn_args[3],
                        <<fn_args[4], fn_args[5], fn_args[6]>>)]
    /\ fn_pc' = "done"
    /\ UNCHANGED <<fn_args, transformVars, getTileVars, mergeVars, tileVars, overlayVars>>

NextCalls ==
    \/ add_tiles_for_zoom_rect
    \/ tile_zoom_level_return
    \/ fix_y_return
    \/ fix_y_again
    \/ mercator_map
    \/ mercator_imap_of_map
    \/ mercator_glsl_map
    \/ mercator_imap
    \/ mercator_glsl_imap
    \/ relative_map
    \/ relative_glsl_map

SpecCalls == InitCalls /\ [][NextCalls]_vars

\* C22: the tiles requested for a composite are exactly those with x from
\* northwest.x - 1 to southeast.x + 1 and y from max(0, northwest.y - 1) to
\* min(2^z - 1, southeast.y + 1), and that y-range is not empty and lies
\* within 0..2^z - 1.
CompositeRectangle ==
    (fn_pc = "done" /\ fn_args[1] = "_add_tiles_for_zoom") =>
        LET z == fn_args[2]
            ylo == IF fn_args[4] - 1 >= 0 THEN fn_args[4] - 1 ELSE 0
            yhi == IF fn_args[6] + 1 <= 2^z - 1 THEN fn_args[6] + 1 ELSE 2^z - 1
        IN  /\ { <<fn_ret.requests[i][2], fn_ret.requests[i][3]>> :
                    i \in 1..Len(fn_ret.requests) }
                 = ((fn_args[3] - 1)..(fn_args[5] + 1)) \X (ylo..yhi)
            /\ \A i \in 1..Len(fn_ret.requests) : fn_ret.requests[i][1] = z
            /\ ylo <= yhi
            /\ 0 <= ylo
            /\ yhi <= 2^z - 1
            /\ fn_ret.key = <<z, fn_args[3] - 1, fn_args[5] + 1, ylo, yhi>>

\* a viewport over both rows of zoom 1 has been widened by a column on each
\* side while its rows were clamped at both ends
CompositeRectangleWitness ==
    /\ fn_pc = "done"
    /\ fn_args = <<"_add_tiles_for_zoom", 1, 0, 0, 0, 1>>
    /\ fn_ret.key = <<1, -1, 1, 0, 1>>
    /\ Len(fn_ret.requests) = 6

\* the transform arguments of the image node stored under a composite key
\* are those of tile (x, y) at the key's zoom
CompositeTransformIs(x, y) ==
    \A i \in 1..Len(images) : \A e \in scene :
        (Len(images[i].key) = 5 /\ e.node = images[i].node) =>
            e.st = <<images[i].key[1], x[images[i].key], y[images[i].key]>>

\* C23 (as stated): the image node of a composite (z, x_min..x_max,
\* y_min..y_max) carries the transform of the tile with the minimum x and the
\* minimum y.
TransformOfNorthWestTile ==
    CompositeTransformIs([k \in {images[i].key : i \in 1..Len(images)} |-> k[2]],
                         [k \in {images[i].key : i \in 1..Len(images)} |-> k[4]])

\* C23 (amended): the image node of a composite carries the transform of the
\* tile with the minimum x and the maximum y, the south-west tile, whose
\* lower-left corner get_st_transform translates to.
TransformOfSouthWestTile ==
    CompositeTransformIs([k \in {images[i].key : i \in 1..Len(images)} |-> k[2]],
                         [k \in {images[i].key : i \in 1..Len(images)} |-> k[5]])

\* a composite of two rows is stored and its node is in the scene with the
\* transform of the southern row
TransformOfSouthWestTileWitness ==
    \E i \in 1..Len(images) : \E e \in scene :
        /\ images[i].key = <<1, -1, 2, 0, 1>>
        /\ e.node = images[i].node
        /\ e.st = <<1, -1, 1>>


\* C24: the zoom level returned is the floor of -log2(merc_per_pixel) +
\* 17.756..., or 0 if that is negative; it is a natural number, and it is 0
\* for merc_per_pixel = 1e9.
ZoomIsClampedFloor ==
    (fn_pc = "done" /\ fn_args[1] = "tile_zoom_level") =>
        LET floor == (17756200 - fn_args[2]) \div 1000000
        IN  /\ fn_ret = IF floor >= 0 THEN floor ELSE 0
            /\ fn_ret \in Nat
            /\ fn_args[2] = 29897353 => fn_ret = 0

\* a scale between zoom levels whose sum is negative and has a fraction:
\* int() gives -2 where floor gives -3, and the result is 0
ZoomIsClampedFloorWitness ==
    /\ fn_pc = "done"
    /\ fn_args = <<"tile_zoom_level", 20000000>>
    /\ int(zoom_cal - 20000000) = -2
    /\ (zoom_cal - 20000000) \div 1000000 = -3
    /\ fn_ret = 0

\* v lies strictly between -B and B
Inside(v) == -BoundsCm < Cm(v) /\ Cm(v) < BoundsCm

\* C25: what _fix_y returns lies strictly between -B and B, is y itself when
\* y lies strictly between -B and B, and is returned unchanged by a second
\* application.
FixYInsideAndIdempotent ==
    fn_args[1] = "_fix_y" =>
        /\ fn_pc \in {"again", "done"} =>
              /\ Inside(fn_ret[1])
              /\ Inside(fn_args[2]) => fn_ret[1] = fn_args[2]
        /\ fn_pc = "done" => fn_ret[2] = fn_ret[1]

\* a y one meter beyond the northern bound has been brought to one meter
\* inside it, and that value is kept by the second application
FixYInsideAndIdempotentWitness ==
    /\ fn_pc = "done"
    /\ fn_args = <<"_fix_y", [b |-> 1, k |-> 1]>>
    /\ fn_ret = <<[b |-> 1, k |-> -1], [b |-> 1, k |-> -1]>>

\* the float f is a number within tol of n
Close(f, n, tol) == f.k = "num" /\ Abs(f.v - n) <= tol

\* C26: the row MercatorTransform.map returns for (lon, lat, z) is
\* (R * radians(lon), R * ln(tan(pi/4 + radians(lat)/2)), z), to within 100
\* meters.
MapIsForwardMercator ==
    (fn_args[1] = "MercatorTransform" /\ fn_ret.map # <<>>) =>
        /\ Close(fn_ret.map[1], MulMicro(R, radians(fn_args[2])), 100)
        /\ Close(fn_ret.map[2],
                 MulMicro(R, ln(tan(M_PI \div 4 + radians(fn_args[3]) \div 2))), 100)
        /\ fn_ret.map[3] = fn_args[4]

\* C27: for a latitude strictly between -85 and 85 degrees, imap of map of
\* (lon, lat) is (lon, lat) to within a thousandth of a degree (the claim
\* asks for a millionth).
RoundTripReproduces ==
    (fn_args[1] = "MercatorTransform" /\ fn_ret.imap_of_map # <<>>
        /\ -85000000 < fn_args[3] /\ fn_args[3] < 85000000) =>
        /\ Close(fn_ret.imap_of_map[1], fn_args[2], 1000)
        /\ Close(fn_ret.imap_of_map[2], fn_args[3], 1000)

\* the rows r and s are numbers that agree to within tol
Agree(r, s, tol) ==
    /\ r[1].k = "num" /\ Close(s[1], r[1].v, tol)
    /\ r[2].k = "num" /\ Close(s[2], r[2].v, tol)
    /\ r[3] = s[3]

\* C28: for the same input, map and the shader's map of a MercatorTransform
\* agree to within 1000 meters, so do those of a RelativeMercatorTransform,
\* and imap and the shader's imap of a MercatorTransform agree to within a
\* thousandth of a degree.
CpuAndGlslAgree ==
    fn_args[1] \in {"MercatorTransform", "RelativeMercatorTransform"} =>
        /\ (fn_ret.map # <<>> /\ fn_ret.glsl_map # <<>>) =>
                Agree(fn_ret.glsl_map, fn_ret.map, 1000)
        /\ (fn_ret.imap # <<>> /\ fn_ret.glsl_imap # <<>>) =>
                Agree(fn_ret.glsl_imap, fn_ret.imap, 1000)

----------------------------------------------------------------------------
(* A RelativeMercatorTransform whose reference point is reassigned *)

MaxAssignments == 2

\* longitudes and latitudes given to the constructor and the setters, degrees
RefLongitudes == {-180, -122, 0, 45, 100, 180}
RefLatitudes == {-60, -35, 0, 35, 60}

\* RelativeMercatorTransform.__init__: the fields and the shader parameters
\* are set from the arguments
InitRelative ==
    /\ ViewInit
    /\ GetTileIdle
    /\ MergeIdle
    /\ CallIdle
    /\ \E lo \in RefLongitudes, la \in RefLatitudes :
          /\ rmt = [longitude |-> lo, latitude |-> la, lon |-> lo, lat |-> la]
          /\ rmt_set = <<lo, la, 0>>
    /\ rmt_ref = <<>>

\* a longitude setter that leaves the shader parameter as it was
longitude_set_field_only(long) ==
    /\ rmt_set[3] < MaxAssignments
    /\ rmt' = [rmt EXCEPT !.longitude = long]
    /\ rmt_set' = <<long, rmt_set[2], rmt_set[3] + 1>>
    /\ rmt_ref' = <<>>
    /\ UNCHANGED <<callVars, getTileVars, mergeVars, tileVars, overlayVars>>

\* the longitude setter, lines 217-220
longitude_set(long) ==
    /\ rmt_set[3] < MaxAssignments
    /\ rmt' = [rmt EXCEPT !.lon = long, !.longitude = long]
    /\ rmt_set' = <<long, rmt_set[2], rmt_set[3] + 1>>
    /\ rmt_ref' = <<>>
    /\ UNCHANGED <<callVars, getTileVars, mergeVars, tileVars, overlayVars>>

\* the latitude setter, lines 226-229
latitude_set(la) ==
    /\ rmt_set[3] < MaxAssignments
    /\ rmt' = [rmt EXCEPT !.latitude = la, !.lat = la]
    /\ rmt_set' = <<rmt_set[1], la, rmt_set[3] + 1>>
    /\ rmt_ref' = <<>>
    /\ UNCHANGED <<callVars, getTileVars, mergeVars, tileVars, overlayVars>>

\* a forward evaluation: map() reads self.longitude and self.latitude
\* (line 236), the shader reads $lon and $lat (lines 172-173)
relative_evaluate ==
    /\ rmt_ref = <<>>
    /\ rmt_ref' = <<rmt.longitude, rmt.latitude, rmt.lon, rmt.lat>>
    /\ UNCHANGED <<rmt, rmt_set, callVars, getTileVars, mergeVars, tileVars, overlayVars>>

NextRelative ==
    \/ \E long \in RefLongitudes : longitude_set(long)
    \/ \E la \in RefLatitudes : latitude_set(la)
    \/ relative_evaluate

SpecRelative == InitRelative /\ [][NextRelative]_vars

\* C30: the shader parameters lon and lat equal the longitude and latitude
\* fields, and a forward evaluation made after the assignments so far has
\* used the reference point assigned last, on the CPU and in the shader.
ReferencePointIsCurrent ==
    /\ rmt.lon = rmt.longitude
    /\ rmt.lat = rmt.latitude
    /\ rmt_ref # <<>> =>
          rmt_ref = <<rmt_set[1], rmt_set[2], rmt_set[1], rmt_set[2]>>

\* a transform has been moved to (100, 35) by two assignments and evaluated
\* there
ReferencePointIsCurrentWitness ==
    /\ rmt_set = <<100, 35, 2>>
    /\ rmt_ref = <<100, 35, 100, 35>>
    /\ rmt.lon = 100

----------------------------------------------------------------------------
(* Properties of the view under concurrency and failure *)

\* C31: when the fetch of an _add_tile command with the policy RAISE finds
\* no tile, the error goes to the caller of add_tile: it is not caught and
\* logged by the worker's except clause while the caller has long returned.
AddTileRaisesToCaller ==
    [][ (wpc = "t_fetch" /\ cur.args[3] = "RAISE")
          => ~(wpc' = "get" /\ log' = Append(log, <<"fail", cur.id>>)
                 /\ uipc' = uipc) ]_vars

\* C32: once the tile_provider setter has returned and the worker has
\* drained the queue, every Image node attached to the scene was stitched
\* only from tiles of the provider the view now has.
DisplayedTilesAreOfCurrentProvider ==
    (uipc = "idle" /\ wpc = "get" /\ queue = <<>>)
        => \A e \in scene : e.srcs \subseteq {tile_provider}

\* C33: whenever the worker's sweep or a setter's loop is about to call
\* remove_tile(key), the key is in _images: the pop cannot raise KeyError.
RemoveTileKeyIsTracked ==
    /\ (wpc = "c_evict" /\ wsnap # <<>>) => HasKey(images, Head(wsnap))
    /\ (uipc = "rm_loop" /\ uisnap # <<>>) => HasKey(images, Head(uisnap))

\* C34: the worker does not hold the scene lock while it is inside
\* _merge_tiles or while a fetch is outstanding; it holds the lock only to
\* attach a node, to detach one or to list the scene's children.
MergeTilesHoldsNoLock ==
    /\ (wpc = "merge" \/ pending > 0) => lock # "worker"
    /\ wpc = "t_fetch" => lock # "worker"
    /\ lock = "worker" => wpc \in {"img_attach", "rm_detach", "t_scn"}

\* a camera event has taken the scene lock while fetches of the composite
\* being executed are outstanding
MergeTilesHoldsNoLockWitness ==
    /\ wpc = "merge"
    /\ pending > 0
    /\ lock = "ui"
    /\ uipc = "cam"

\* MapView.on_mouse_press: with self.scene_lock
on_mouse_press_lock ==
    /\ uipc = "idle"
    /\ lock = "none"
    /\ lock' = "ui"
    /\ uipc' = "press"
    /\ UNCHANGED <<queue, nextId, images, scene, viewVars, workerVars, uiop,
                   uisnap, uinode, uiold>>
    /\ UNCHANGED <<overlayVars, fetchVars>>

\* a handler whose early return does not leave the with block
on_mouse_press_returns_locked ==
    /\ uipc = "press"
    /\ uipc' = "idle"
    /\ UNCHANGED <<queue, nextId, images, scene, lock, viewVars, workerVars,
                   uiop, uisnap, uinode, uiold>>
    /\ UNCHANGED <<overlayVars, fetchVars>>

\* MapView.on_mouse_press, the body of the with block: the text and the
\* click marker are updated (no tile state); every branch, the early return
\* of the right click too, leaves the with block
on_mouse_press ==
    /\ uipc = "press"
    /\ lock' = "none"
    /\ uipc' = "idle"
    /\ UNCHANGED <<queue, nextId, images, scene, viewVars, workerVars, uiop,
                   uisnap, uinode, uiold>>
    /\ UNCHANGED <<overlayVars, fetchVars>>

\* MapView._update_transforms, called by the scene graph machinery between
\* handlers: with self.scene_lock
_update_transforms_lock ==
    /\ uipc = "idle"
    /\ lock = "none"
    /\ lock' = "ui"
    /\ uipc' = "upd"
    /\ UNCHANGED <<queue, nextId, images, scene, viewVars, workerVars, uiop,
                   uisnap, uinode, uiold>>
    /\ UNCHANGED <<overlayVars, fetchVars>>

\* MapView._update_transforms: super()._update_transforms(), leave the with
\* block
_update_transforms ==
    /\ uipc = "upd"
    /\ lock' = "none"
    /\ uipc' = "idle"
    /\ UNCHANGED <<queue, nextId, images, scene, viewVars, workerVars, uiop,
                   uisnap, uinode, uiold>>
    /\ UNCHANGED <<overlayVars, fetchVars>>

HandlerNext ==
    \/ on_mouse_press_lock
    \/ on_mouse_press
    \/ _update_transforms_lock
    \/ _update_transforms

\* the view with the mouse press handler and the transform updates as well
NextHandlers ==
    \/ Next
    \/ HandlerNext

SpecHandlers == Init /\ [][NextHandlers]_vars

\* C35: a thread that is about to request the scene lock does not hold it,
\* the holder is always inside one of the with blocks, and the holder's
\* next step leaves the block and releases the lock: no thread waits for a
\* lock it holds itself or that is never released.
SceneLockNotReentered ==
    /\ [](/\ wpc \in {"img_lock", "rm_lock", "t_scn_lock"} => lock # "worker"
          /\ uipc \in {"idle", "rm_lock"} => lock # "ui"
          /\ lock = "worker" => wpc \in {"img_attach", "rm_detach", "t_scn"}
          /\ lock = "ui" => uipc \in {"cam", "rm_detach", "press", "upd"})
    /\ [][ /\ (lock = "worker" /\ wpc' # wpc) => lock' = "none"
           /\ (lock = "ui" /\ uipc' # uipc) => lock' = "none" ]_vars

\* the worker waits to attach its image while the mouse press handler
\* holds the lock
SceneLockNotReenteredWitness ==
    /\ wpc = "img_lock"
    /\ lock = "ui"
    /\ uipc = "press"

\* C36 (as stated): the entry of a composite's raster leaves _images only
\* in the sweep of a later composite whose zoom differs from its own.
StaleRasterRemovedOnlyBySweep ==
    [][ \A i \in 1..Len(images) :
          (Len(images[i].key) = 5 /\ ~HasKey(images', images[i].key))
            => /\ wpc = "c_evict"
               /\ wpc' = "rm_lock"
               /\ Composite(cur)
               /\ cur.z # images[i].key[1]
               /\ cur.id > images[i].node ]_vars

\* C36 (amended): a composite command carries the viewport of the moment it
\* was put and reaches the worker unchanged; its raster is stored under the
\* key of those arguments and attached, whatever the viewport is by then;
\* and the entry leaves _images only in the sweep of a later composite whose
\* zoom differs from its own or in the loop of the tile_provider or
\* map_enabled setter.
StaleCompositeLifecycle ==
    [][ /\ (Len(queue') = Len(queue) + 1 /\ Composite(queue'[Len(queue')]))
             => LET c == queue'[Len(queue')]
                IN  <<c.z>> \o c.args = viewport'
        /\ (wpc = "get" /\ wpc' # "get") => cur' = queue[1]
        /\ (wpc = "store" /\ wpc' # "store" /\ Composite(cur))
             => /\ HasKey(images', CompositeKey(cur.z, cur.args))
                /\ Lookup(images', CompositeKey(cur.z, cur.args)) = cur.id
                /\ cur.id \in SceneNodes(scene')
        /\ \A i \in 1..Len(images) :
             (Len(images[i].key) = 5 /\ ~HasKey(images', images[i].key))
               => \/ /\ wpc = "c_evict"
                     /\ wpc' = "rm_lock"
                     /\ Composite(cur)
                     /\ cur.z # images[i].key[1]
                     /\ cur.id > images[i].node
                  \/ /\ uipc = "rm_loop"
                     /\ uipc' = "rm_lock"
                     /\ uiop \in {"tile_provider", "map_enabled"} ]_vars

\* the constructor's composite has just stored its raster for zoom 0 while
\* the camera is already at zoom 1
StaleCompositeLifecycleWitness ==
    /\ wpc = "c_snap"
    /\ cur.id = 1
    /\ cur.z = 0
    /\ viewport[1] = 1
    /\ HasKey(images, CompositeKey(cur.z, cur.args))
    /\ 1 \in SceneNodes(scene)

\* C37: a composite whose key is already in _images starts no fetch and goes
\* straight to the stale-zoom sweep with _images and the scene as they
\* were; fetches start and a node is attached only for a key that was not in
\* _images, and the store of a composite never overwrites an entry, so no
\* node loses its entry to another node of the same key.
KnownCompositeIsSkipped ==
    [][ /\ (wpc = "c_check" /\ wpc' # "c_check"
              /\ HasKey(images, CompositeKey(cur.z, cur.args)))
             => /\ wpc' = "c_snap"
                /\ pending' = 0
                /\ images' = images
                /\ scene' = scene
        /\ (wpc' = "merge" /\ wpc # "merge")
             => (wpc = "c_check" /\ ~HasKey(images, CompositeKey(cur.z, cur.args)))
        /\ pending' > pending => wpc' = "merge"
        /\ (wpc' = "img_lock" /\ wpc # "img_lock" /\ Composite(cur))
             => wpc = "merge"
        /\ (wpc = "store" /\ wpc' # "store" /\ Composite(cur))
             => ~HasKey(images, CompositeKey(cur.z, cur.args)) ]_vars

\* the third command, a composite for the key the first one stored, has
\* been skipped: no node of its own is attached, and its sweep is evicting
\* the zoom-0 tile the second command added
KnownCompositeIsSkippedWitness ==
    /\ wpc = "rm_lock"
    /\ Composite(cur)
    /\ cur.id = 3
    /\ cur.z = 1
    /\ HasKey(images, CompositeKey(cur.z, cur.args))
    /\ Lookup(images, CompositeKey(cur.z, cur.args)) = 1
    /\ 3 \notin SceneNodes(scene)
    /\ wnode = 2
    /\ ~HasKey(images, <<0, 0, 0>>)

\* C38: from the moment a composite is dequeued until its _merge_tiles has
\* returned or raised, no step of the worker or of the pool changes _images
\* or the scene; when a fetch has raised, the command ends there, logged as
\* failed, without attaching, storing or sweeping; and the sweep is entered
\* only after a store or a key that was found, never after a failed fetch.
FailedCompositeChangesNothing ==
    [][ /\ (Composite(cur) /\ wpc \in {"c_check", "merge"}
              /\ (wpc' # wpc \/ pending' # pending))
             => (images' = images /\ scene' = scene)
        /\ (wpc = "merge" /\ wpc' # "merge" /\ poolerr)
             => /\ wpc' = "get"
                /\ log' = Append(log, <<"fail", cur.id>>)
                /\ images' = images
                /\ scene' = scene
        /\ (wpc' = "c_snap" /\ wpc # "c_snap")
             => (wpc \in {"store", "c_check"} /\ ~poolerr) ]_vars

\* a fetch of the second composite, for zoom 1, has raised and the pool is
\* done, while the raster of the first, for zoom 0, is tracked and attached
FailedCompositeChangesNothingWitness ==
    /\ wpc = "merge"
    /\ poolerr
    /\ pending = 0
    /\ cur.id = 2
    /\ cur.z = 1
    /\ Len(images) = 1
    /\ images[1].key[1] = 0
    /\ SceneNodes(scene) = {1}

\* C39: inside the camera's handler, whatever the event and the place it
\* moves the camera to: while the map is disabled the handler moves the
\* camera and leaves the queue as it is, and it can put a command only when
\* the map is enabled, the queue is empty and the event is a mouse_wheel or
\* a mouse_move with button 1 or 2 held and no modifier; what it puts is one
\* composite of the new viewport.
CameraEventEnqueuesOnlyWhenEnabled ==
    uipc = "cam" =>
        \A e \in Events : \A v \in CameraTargets(e, viewport) :
            /\ ~enabled =>
                 /\ ENABLED (viewbox_mouse_event(e, v) /\ viewport' = v
                               /\ queue' = queue)
                 /\ ~ENABLED (viewbox_mouse_event(e, v) /\ queue' # queue)
            /\ ENABLED (viewbox_mouse_event(e, v) /\ queue' # queue)
                 => /\ enabled
                    /\ queue = <<>>
                    /\ \/ e.type = "mouse_wheel"
                       \/ /\ e.type = "mouse_move"
                          /\ ~e.modifiers
                          /\ (1 \in e.buttons \/ 2 \in e.buttons)
                    /\ ENABLED (viewbox_mouse_event(e, v)
                                  /\ queue' = <<CompositeCmd(nextId, v)>>)

\* the camera's handler runs with the map disabled while the queue is empty
\* and a command id is left: only map_enabled keeps it from putting a command
CameraEventEnqueuesOnlyWhenEnabledWitness ==
    /\ uipc = "cam"
    /\ ~enabled
    /\ queue = <<>>
    /\ wpc = "get"
    /\ nextId <= MaxCmds

====
